---- MODULE Spec2Model ----
(***************************************************************************)
(* Oxen versioned data store: the commit pipelines (core/v0_19_0 merkle    *)
(* commit writer and the v0.10.0 CommitEntryWriter path), the server side  *)
(* of push and the fetch of a remote branch, as one state machine.         *)
(*                                                                         *)
(* A behaviour follows one scenario, chosen in Init: a local repository    *)
(* staging and committing ("commit"), two clients pushing to one remote    *)
(* ("push"), or a local repository fetching a remote branch ("fetch").     *)
(* Further specifications check parts of the program on their              *)
(* own: SpecHash the hashing of a working tree ("hash"), SpecVNodes the    *)
(* number of vnodes of a directory ("vnodes"), SpecNodeDB one MerkleNodeDB *)
(* directory with a writer and a reader ("nodedb").  SpecCheckout is the   *)
(* checkout of a commit or a branch ("checkout") and SpecMigrate the       *)
(* migration of a legacy repository to the merkle layout ("migrate").      *)
(* SpecCalls is one MerkleNodeDB handle called in any order ("calls"),     *)
(* SpecRebucket the bucket of a child in the commit and in the migration   *)
(* ("rebucket"), SpecMigrateDir the vnode hashes migrate_dir computes      *)
(* ("migrate_dir") and SpecDiff the diff of two commits in both directions *)
(* ("diff").                                                               *)
(*                                                                         *)
(* Hashes are sequences of naturals: a file content hash h is <<h>>, and   *)
(* the xxh3 digest of a stream of child hashes is <<0>> followed by the    *)
(* stream, so that equal streams give equal digests and nothing else does. *)
(***************************************************************************)
EXTENDS Integers, Sequences, FiniteSets, TLC

\* ---------------------------------------------------------------- bounds
\* file content hashes are 1..MaxHash
MaxHash == 2
\* number of commit invocations in one behaviour
MaxCommits == 2
\* commits on the remote branch a fetch reads
MaxRemote == 2
\* fetch invocations
MaxFetches == 2
\* commits each pusher has on top of the remote head
MaxPush == 2
\* levels of a tree: commit, directory, vnode
TreeDepth == 3

\* ------------------------------------------------------------- constants
\* target number of children per vnode
VNodeSize == 10000
DEFAULT_BRANCH_NAME == "main"
OtherBranch == "dev"
BranchNames == {DEFAULT_BRANCH_NAME, OtherBranch}
\* HEAD file absent
NoHead == "<no HEAD>"
Root == ""
\* staged paths, in the byte order in which the staging db iterates its keys
Names == <<"a", "b">>
NameSet == {Names[i] : i \in 1..Len(Names)}
\* a directory below the root and the paths of files in it
SubDir == "d"
SubNames == <<"d/a", "d/b">>
\* every path, in the byte order in which the staging db iterates its keys
Paths == Names \o SubNames
PathSet == {Paths[i] : i \in 1..Len(Paths)}
\* Path::parent
Parent(p) == IF p \in NameSet THEN Root ELSE SubDir
\* Path::starts_with, on the directories Root and SubDir
starts_with(path, base) == base = Root \/ path = base
FileHashes == 1..MaxHash
Versions == {"v0_10_0", "v0_19_0"}

VARIABLES
    scenario,   \* "commit" | "push" | "fetch"
    version,    \* layout of the local repository
    head,       \* HEAD file: NoHead or the branch name it refers to
    branches,   \* refs/branches: branch name -> commit id
    staged,     \* staging db: path -> file hash
    nodes,      \* tree/nodes: node hash -> merkle node db
    commits,    \* v0.10.0 commits db: ids of the commit objects stored
    history,    \* v0.10.0 history/<commit>: commit id -> paths written
    versions,   \* versions dir: hashes of the blobs stored
    pc,         \* position of the commit in flight
    cur,        \* the commit in flight
    idx,        \* next operation of cur.plan
    pre,        \* refs when the commit in flight began
    sealed,     \* node hash -> children the db held when first closed
    ncommits,   \* commit invocations so far
    rbranches,  \* remote refs/branches: branch name -> commit id
    rcommits,   \* remote commits db: ids of the commit objects stored
    rentries,   \* remote: ids of the commits whose entries have arrived
    ppc,        \* pusher -> position of its push
    expected,   \* pusher -> remote head it read when its push began
    pidx,       \* pusher -> next commit of its chain to send
    synced,     \* local commits marked as synced
    shallow,    \* the local repository's shallow flag
    fetching,   \* arguments of the fetch in flight
    nfetches,   \* fetch invocations so far
    calc,       \* inputs and results of the hashing, vnode and diff computations
    ndb,        \* one MerkleNodeDB directory, its writer and a reader
    co,         \* a repository with two commits and its working tree
    mig         \* a legacy repository and the run of its migration

localVars == <<version, head, branches, staged, nodes, commits, history, versions>>
commitVars == <<pc, cur, idx, pre, sealed, ncommits>>
remoteVars == <<rbranches, rcommits, rentries>>
pushVars == <<ppc, expected, pidx>>
fetchVars == <<synced, shallow, fetching, nfetches>>
auxVars == <<calc, ndb, co, mig>>
otherVars == <<remoteVars, pushVars, fetchVars, auxVars>>
vars == <<scenario, localVars, commitVars, remoteVars, pushVars, fetchVars, auxVars>>

\* ------------------------------------------------------------- hashing
\* xxh3 digest128 of the little-endian bytes of a sequence of hashes
Digest(hs) == <<0>> \o hs
FileHash(h) == <<h>>

\* integers below 2^24 are exact in f32
F32Exact == 16777216

RECURSIVE Ulp(_, _)
\* spacing of the f32 values around the integer n, starting from u
Ulp(n, u) == IF n \div u < F32Exact THEN u ELSE Ulp(n, 2 * u)

\* total_children as f32: round to nearest with a 24 bit significand, ties to even
ToF32(n) ==
    LET u == Ulp(n, 1)
        q == n \div u
        r == n % u
    IN  IF 2 * r < u THEN q * u
        ELSE IF 2 * r > u THEN (q + 1) * u
        ELSE (IF q % 2 = 0 THEN q ELSE q + 1) * u

\* the f32 quotient x / 10000_f32 is at most p, for a power of two p: the
\* exact quotient rounds down to p up to half a spacing above p
F32QuotientLeq(x, p) ==
    \/ x <= p * VNodeSize
    \/ x - p * VNodeSize <= (p * VNodeSize) \div F32Exact

RECURSIVE Pow2Ceil(_, _)
\* 2^ceil(log2(x / 10000_f32)) for the f32 value x, starting from p; log2 and
\* ceil are taken as exact on the f32 quotient
Pow2Ceil(x, p) == IF F32QuotientLeq(x, p) THEN p ELSE Pow2Ceil(x, 2 * p)
\* 2^ceil(log2(total_children as f32 / 10000)), a negative exponent cast to 0
NumVNodes(total_children) == Pow2Ceil(ToF32(total_children), 1)

\* ------------------------------------------------- v0.19.0 commit writer
EmptyMap == [x \in {} |-> 0]
PathIndex(p) == CHOOSE i \in 1..Len(Paths) : Paths[i] = p
Hashes(es) == [i \in 1..Len(es) |-> es[i].hash]

\* one staged entry as the commit writer reads it
EntryMetaDataWithPath(p, h) == [path |-> p, hash |-> h, data_type |-> "File"]

RECURSIVE StagedEntries(_, _)
\* the entries of staging db st from key i on, in iterator order
StagedEntries(st, i) ==
    IF i > Len(Paths) THEN <<>>
    ELSE (IF Paths[i] \in DOMAIN st
          THEN <<EntryMetaDataWithPath(Paths[i], st[Paths[i]])>>
          ELSE <<>>) \o StagedEntries(st, i + 1)

\* dir_entries: parent directory -> entries pushed in iterator order
DirEntries(st) ==
    [d \in {Parent(p) : p \in DOMAIN st} |->
        SelectSeq(StagedEntries(st, 1), LAMBDA e : Parent(e.path) = d)]

RECURSIVE SortByPath(_)
\* vnode.entries.sort_by(|a, b| a.path.cmp(&b.path))
SortByPath(es) ==
    IF Len(es) <= 1 THEN es
    ELSE LET m == CHOOSE i \in 1..Len(es) :
                    \A j \in 1..Len(es) : PathIndex(es[i].path) <= PathIndex(es[j].path)
         IN  <<es[m]>> \o SortByPath(SubSeq(es, 1, m - 1) \o SubSeq(es, m + 1, Len(es)))

\* the children of one directory that fall in bucket k of n
Bucket(children, n, k) == SelectSeq(children, LAMBDA c : c.hash % n = k)

\* a bucket becomes a vnode: id over the entries as pushed, entries then sorted
EntryVNode(es) == [id |-> Digest(Hashes(es)), entries |-> SortByPath(es)]

split_into_vnodes(entries) ==
    [d \in DOMAIN entries |->
        LET num_vnodes == NumVNodes(Len(entries[d]))
        IN  [k \in 1..num_vnodes |-> EntryVNode(Bucket(entries[d], num_vnodes, k - 1))]]

RECURSIVE VNodeHashes(_, _)
\* child hashes of the vnodes vs from vnode k on
VNodeHashes(vs, k) ==
    IF k > Len(vs) THEN <<>> ELSE Hashes(vs[k].entries) \o VNodeHashes(vs, k + 1)

RECURSIVE AllHashes(_, _, _)
\* child hashes of the directories order[i..], directory by directory
AllHashes(ventries, order, i) ==
    IF i > Len(order) THEN <<>>
    ELSE VNodeHashes(ventries[order[i]], 1) \o AllHashes(ventries, order, i + 1)

\* order is the order in which the HashMap yields the directories
compute_commit_id(ventries, order) == Digest(AllHashes(ventries, order, 1))

NoChild == [hash |-> <<>>, dtype |-> "None", name |-> "", last_commit_id |-> <<>>]
FileNode(e, commit_id) ==
    [hash |-> FileHash(e.hash), dtype |-> "File", name |-> e.path, last_commit_id |-> commit_id]
VNode(id) == [hash |-> id, dtype |-> "VNode", name |-> "", last_commit_id |-> <<>>]

\* the directories at or below dir_path, in the order the HashMap yields them
get_children(ventries, order, dir_path) ==
    SelectSeq(order, LAMBDA path : starts_with(path, dir_path))

\* the hash of a directory is taken over the file hashes of every directory
\* get_children yields, directory by directory
aggregate_dir_node(commit_id, ventries, order, path) ==
    [hash |-> Digest(AllHashes(ventries, get_children(ventries, order, path), 1)),
     dtype |-> "Dir", name |-> path, last_commit_id |-> commit_id]

OpenOp(h) == [op |-> "open", db |-> h, child |-> NoChild]
AddOp(h, c) == [op |-> "add", db |-> h, child |-> c]
CloseOp(h) == [op |-> "close", db |-> h, child |-> NoChild]
ErrOp == [op |-> "err", db |-> <<>>, child |-> NoChild]

RECURSIVE FileOps(_, _, _, _)
FileOps(db, es, i, commit_id) ==
    IF i > Len(es) THEN <<>>
    ELSE <<AddOp(db, FileNode(es[i], commit_id))>> \o FileOps(db, es, i + 1, commit_id)

RECURSIVE r_create_dir_node_leaves_first(_, _, _, _)
\* a writer that fills the db of a vnode before it adds the vnode to its dir
r_create_dir_node_leaves_first(dir, vs, k, commit_id) ==
    IF k > Len(vs) THEN <<>>
    ELSE <<OpenOp(vs[k].id)>>
         \o FileOps(vs[k].id, vs[k].entries, 1, commit_id)
         \o <<CloseOp(vs[k].id), AddOp(dir, VNode(vs[k].id))>>
         \o r_create_dir_node_leaves_first(dir, vs, k + 1, commit_id)

RECURSIVE r_create_dir_node(_, _, _, _)
\* the node db operations for the vnodes vs of the directory db dir, from vnode k on
r_create_dir_node(dir, vs, k, commit_id) ==
    IF k > Len(vs) THEN <<>>
    ELSE <<AddOp(dir, VNode(vs[k].id)), OpenOp(vs[k].id)>>
         \o FileOps(vs[k].id, vs[k].entries, 1, commit_id)
         \o <<CloseOp(vs[k].id)>>
         \o r_create_dir_node(dir, vs, k + 1, commit_id)

\* write_commit_entries whose r_create_dir_node accepts a directory that has
\* no entries
write_commit_entries_no_check(commit_id, ventries, order) ==
    LET dir_node == aggregate_dir_node(commit_id, ventries, order, Root)
    IN  <<OpenOp(commit_id), AddOp(commit_id, dir_node), OpenOp(dir_node.hash)>>
        \o (IF Root \in DOMAIN ventries
            THEN r_create_dir_node(dir_node.hash, ventries[Root], 1, commit_id)
            ELSE <<>>)
        \o <<CloseOp(dir_node.hash)>>

\* the node db operations of one commit, in program order; the commit db is
\* opened first and stays open until commit returns
write_commit_entries(commit_id, ventries, order) ==
    LET dir_node == aggregate_dir_node(commit_id, ventries, order, Root)
    IN  <<OpenOp(commit_id), AddOp(commit_id, dir_node), OpenOp(dir_node.hash)>>
        \o (IF Root \in DOMAIN ventries
            THEN r_create_dir_node(dir_node.hash, ventries[Root], 1, commit_id)
                 \o <<CloseOp(dir_node.hash)>>
            ELSE <<ErrOp>>)

\* ------------------------------------------------------------ node dbs
\* MerkleNodeDB::open for writing creates the directory and truncates both files
OpenDB(ns, h) ==
    [x \in DOMAIN ns \cup {h} |-> IF x = h THEN [children |-> <<>>, open |-> TRUE] ELSE ns[x]]
\* write_one appends one record
WriteOne(ns, h, c) == [ns EXCEPT ![h].children = Append(@, c)]
\* the writer handle is dropped
CloseDB(ns, h) == [ns EXCEPT ![h].open = FALSE]
CloseAll(ns) == [x \in DOMAIN ns |-> [ns[x] EXCEPT !.open = FALSE]]

ApplyOp(ns, o) ==
    CASE o.op = "open" -> OpenDB(ns, o.db)
      [] o.op = "add" -> WriteOne(ns, o.db, o.child)
      [] o.op = "close" -> CloseDB(ns, o.db)

\* first close of a db records what it then holds
Seal(sl, nsBefore, nsAfter) ==
    LET newly == {h \in DOMAIN nsAfter :
                    /\ h \notin DOMAIN sl
                    /\ ~nsAfter[h].open
                    /\ h \in DOMAIN nsBefore /\ nsBefore[h].open}
    IN  [h \in DOMAIN sl \cup newly |-> IF h \in DOMAIN sl THEN sl[h] ELSE nsAfter[h].children]

\* ------------------------------------------------------------- refs
\* RefWriter::set_head
set_head(name) == name
\* RefWriter::set_branch_commit_id and create_branch
set_branch_commit_id(bs, name, id) ==
    [b \in DOMAIN bs \cup {name} |-> IF b = name THEN id ELSE bs[b]]
\* RefReader::head_commit_id is Some when HEAD names a branch that has a commit
HasHeadCommit == head # NoHead /\ head \in DOMAIN branches
Refs == [head |-> head, branches |-> branches]

NoFetch == [branch |-> "", all |-> FALSE]
\* the writer handle and the reader handle of a MerkleNodeDB, not opened
NoWriter == [state |-> "new", size |-> 0, data_offset |-> 0, k |-> 1, field |-> 0]
NoList == [done |-> FALSE, ok |-> FALSE, items |-> <<>>]
NoReader == [state |-> "none", size |-> 0, offsets |-> EmptyMap, got |-> EmptyMap,
             writer |-> "new", listed |-> NoList]
\* no node db directory
NoNodeDB ==
    [plan |-> <<>>, lookup_exists |-> FALSE, lookup |-> <<>>, data_exists |-> FALSE,
     data |-> <<>>, w |-> NoWriter, r |-> NoReader, read_only |-> FALSE, calls |-> <<>>]
\* no repository to check out
NoCheckout ==
    [trees |-> EmptyMap, files |-> EmptyMap, head |-> NoHead, branches |-> EmptyMap,
     log |-> <<>>]
\* no repository to migrate
NoMigration ==
    [commits |-> <<>>, tree_dir |-> FALSE, commit_dbs |-> {}, dir_dbs |-> {},
     min_version |-> "", mpc |-> "idle", i |-> 1, runs |-> 0]
\* nothing computed
NoDiff == [base |-> EmptyMap, head |-> EmptyMap, eq |-> "", done |-> {}, ab |-> {}, ba |-> {}]
NoBucket == [done |-> FALSE, num_vnodes |-> 0, bucket |-> 0]
NoCalc ==
    [tree |-> EmptyMap, runs |-> <<>>, children |-> 0, num_vnodes |-> 0,
     child_hash |-> 0, commit |-> NoBucket, migrate |-> NoBucket, diff |-> NoDiff]
NoCommit ==
    [id |-> <<>>, entries |-> <<>>, plan |-> <<>>, parent_ids |-> <<>>, failed_at |-> "",
     error |-> ""]

\* ------------------------------------------------------------ staging
\* add: the staging db maps the path to the hash of the file
Add(p, h) ==
    /\ scenario = "commit" /\ pc = "idle"
    /\ ncommits < MaxCommits
    /\ staged' = [x \in DOMAIN staged \cup {p} |-> IF x = p THEN h ELSE staged[x]]
    /\ UNCHANGED <<scenario, otherVars, version, head, branches, nodes, commits, history, versions, commitVars>>

\* ------------------------------------------- core::v0_19_0 commit, by step
\* the staging db is opened read-only and read; vnodes and commit id computed
CommitBegin ==
    /\ scenario = "commit" /\ pc = "idle" /\ version = "v0_19_0"
    /\ ncommits < MaxCommits
    /\ LET ventries == split_into_vnodes(DirEntries(staged))
           order == IF Root \in DOMAIN ventries THEN <<Root>> ELSE <<>>
           commit_id == compute_commit_id(ventries, order)
       IN  cur' = [id |-> commit_id,
                   entries |-> StagedEntries(staged, 1),
                   plan |-> write_commit_entries(commit_id, ventries, order),
                   parent_ids |-> <<>>,
                   failed_at |-> "",
                   error |-> ""]
    /\ pre' = Refs
    /\ idx' = 1
    /\ pc' = "parents"
    /\ UNCHANGED <<scenario, otherVars, localVars, sealed, ncommits>>

\* parent_ids from the HEAD commit when the HEAD file exists
CommitParents ==
    /\ pc = "parents"
    /\ head # NoHead => head \in DOMAIN branches
    /\ cur' = [cur EXCEPT !.parent_ids = IF head # NoHead THEN <<branches[head]>> ELSE <<>>]
    /\ pc' = "write"
    /\ UNCHANGED <<scenario, otherVars, localVars, idx, pre, sealed, ncommits>>

\* one node db operation of write_commit_entries
CommitWriteStep ==
    /\ pc = "write" /\ idx <= Len(cur.plan)
    /\ cur.plan[idx].op # "err"
    /\ nodes' = ApplyOp(nodes, cur.plan[idx])
    /\ sealed' = Seal(sealed, nodes, nodes')
    /\ idx' = idx + 1
    /\ UNCHANGED <<scenario, otherVars, version, head, branches, staged, commits, history, versions,
                   pc, cur, pre, ncommits>>

\* all node dbs written: refs are written only when there is no HEAD file
CommitWritten ==
    /\ pc = "write" /\ idx > Len(cur.plan)
    /\ pc' = IF head = NoHead THEN "set_head" ELSE "return"
    /\ UNCHANGED <<scenario, otherVars, localVars, cur, idx, pre, sealed, ncommits>>

CommitSetHead ==
    /\ pc = "set_head"
    /\ head' = set_head(DEFAULT_BRANCH_NAME)
    /\ pc' = "set_branch"
    /\ UNCHANGED <<scenario, otherVars, version, branches, staged, nodes, commits, history, versions,
                   cur, idx, pre, sealed, ncommits>>

CommitSetBranch ==
    /\ pc = "set_branch"
    /\ branches' = set_branch_commit_id(branches, DEFAULT_BRANCH_NAME, cur.id)
    /\ pc' = "set_head_commit"
    /\ UNCHANGED <<scenario, otherVars, version, head, staged, nodes, commits, history, versions,
                   cur, idx, pre, sealed, ncommits>>

\* set_head_commit_id writes the commit id to the branch HEAD refers to
CommitSetHeadCommit ==
    /\ pc = "set_head_commit"
    /\ branches' = set_branch_commit_id(branches, head, cur.id)
    /\ pc' = "return"
    /\ UNCHANGED <<scenario, otherVars, version, head, staged, nodes, commits, history, versions,
                   cur, idx, pre, sealed, ncommits>>

\* Ok(commit): the commit db handle goes out of scope
CommitReturn ==
    /\ pc = "return"
    /\ nodes' = CloseAll(nodes)
    /\ sealed' = Seal(sealed, nodes, nodes')
    /\ pc' = "ok"
    /\ UNCHANGED <<scenario, otherVars, version, head, branches, staged, commits, history, versions,
                   cur, idx, pre, ncommits>>

FalliblePc == {"parents", "write", "set_branch", "set_head_commit",
               "l_object", "l_new", "l_open", "l_entries", "l_advance", "l_unstage"}

\* a step returns Err (or panics): the open handles are dropped
\* the OxenError a failing step returns: r_create_dir_node returns Basic for a
\* directory without entries, the file and db operations return IO
ErrorKind ==
    IF pc = "write" /\ idx <= Len(cur.plan) /\ cur.plan[idx].op = "err"
    THEN "Basic" ELSE "IO"

CommitFail ==
    /\ pc \in FalliblePc
    /\ nodes' = CloseAll(nodes)
    /\ sealed' = Seal(sealed, nodes, nodes')
    /\ cur' = [cur EXCEPT !.failed_at = pc, !.error = ErrorKind]
    /\ pc' = "err"
    /\ UNCHANGED <<scenario, otherVars, version, head, branches, staged, commits, history, versions,
                   idx, pre, ncommits>>

\* the caller has the result
CommitFinish ==
    /\ scenario = "commit" /\ pc \in {"ok", "err", "nothing"}
    /\ pc' = "idle"
    /\ ncommits' = ncommits + 1
    /\ cur' = NoCommit
    /\ idx' = 1
    /\ pre' = Refs
    /\ UNCHANGED <<scenario, otherVars, localVars, sealed>>

\* ------------------------------------- v0.10.0 commit (p_commit), by step
\* id of a v0.10.0 commit: a digest over its parent and its entries
LegacyCommitId(parent, es) ==
    Digest(parent \o [i \in 1..Len(es) |-> es[i].hash])

\* p_commit / commit_staged call CommitWriter::commit with the staged data;
\* init commits with no files, command::commit only when something is staged
LegacyBegin ==
    /\ scenario = "commit" /\ pc = "idle" /\ version = "v0_10_0"
    /\ ncommits < MaxCommits
    /\ DOMAIN staged # {} \/ head = NoHead
    /\ LET es == StagedEntries(staged, 1)
           parent == IF HasHeadCommit THEN branches[head] ELSE <<>>
       IN  cur' = [id |-> LegacyCommitId(parent, es),
                   entries |-> es,
                   plan |-> <<>>,
                   parent_ids |-> IF HasHeadCommit THEN <<parent>> ELSE <<>>,
                   failed_at |-> "",
                   error |-> ""]
    /\ pre' = Refs
    /\ idx' = 1
    /\ pc' = "l_object"
    /\ UNCHANGED <<scenario, otherVars, localVars, sealed, ncommits>>

\* the commit object is stored
LegacyAddCommit ==
    /\ pc = "l_object"
    /\ commits' = commits \cup {cur.id}
    /\ pc' = "l_new"
    /\ UNCHANGED <<scenario, otherVars, version, head, branches, staged, nodes, history, versions,
                   cur, idx, pre, sealed, ncommits>>

\* CommitEntryWriter::new: the commit's db dir is created when it does not
\* exist, from the parent's when HEAD has a commit and else from scratch,
\* and then the default branch is created at this commit and HEAD set to it
create_db_dir_for_commit_id ==
    IF HasHeadCommit
    THEN /\ branches[head] \in DOMAIN history
         /\ history' = [c \in DOMAIN history \cup {cur.id} |->
                           IF c = cur.id THEN history[branches[head]] ELSE history[c]]
         /\ UNCHANGED <<head, branches>>
    ELSE /\ history' = [c \in DOMAIN history \cup {cur.id} |->
                           IF c = cur.id THEN {} ELSE history[c]]
         /\ branches' = set_branch_commit_id(branches, DEFAULT_BRANCH_NAME, cur.id)
         /\ head' = set_head(DEFAULT_BRANCH_NAME)

LegacyNewEntryWriter ==
    /\ pc = "l_new"
    /\ IF cur.id \in DOMAIN history
       THEN UNCHANGED <<head, branches, history>>
       ELSE create_db_dir_for_commit_id
    /\ pc' = "l_open"
    /\ UNCHANGED <<scenario, otherVars, version, staged, nodes, commits, versions,
                   cur, idx, pre, sealed, ncommits>>

\* CommitEntryWriter::new opens the dir db of the commit
LegacyOpenDirDb ==
    /\ pc = "l_open"
    /\ pc' = "l_entries"
    /\ UNCHANGED <<scenario, otherVars, localVars, cur, idx, pre, sealed, ncommits>>

\* commit_staged_entry: the file is copied to the versions dir and its entry
\* written to the commit's db
LegacyCommitEntry ==
    /\ pc = "l_entries" /\ idx <= Len(cur.entries)
    /\ versions' = versions \cup {FileHash(cur.entries[idx].hash)}
    /\ history' = [history EXCEPT ![cur.id] = @ \cup {cur.entries[idx].path}]
    /\ idx' = idx + 1
    /\ UNCHANGED <<scenario, otherVars, version, head, branches, staged, nodes, commits,
                   pc, cur, pre, sealed, ncommits>>

LegacyEntriesDone ==
    /\ pc = "l_entries" /\ idx > Len(cur.entries)
    /\ pc' = "l_advance"
    /\ UNCHANGED <<scenario, otherVars, localVars, cur, idx, pre, sealed, ncommits>>

\* the branch HEAD refers to is advanced to the new commit
LegacyAdvance ==
    /\ pc = "l_advance"
    /\ head # NoHead
    /\ branches' = set_branch_commit_id(branches, head, cur.id)
    /\ pc' = "l_unstage"
    /\ UNCHANGED <<scenario, otherVars, version, head, staged, nodes, commits, history, versions,
                   cur, idx, pre, sealed, ncommits>>

\* p_commit: stager.unstage() after the commit is written
LegacyUnstage ==
    /\ pc = "l_unstage"
    /\ staged' = EmptyMap
    /\ pc' = "ok"
    /\ UNCHANGED <<scenario, otherVars, version, head, branches, nodes, commits, history, versions,
                   cur, idx, pre, sealed, ncommits>>

\* ------------------------------------------------- the remote of a fetch
\* the remote branch holds MaxRemote commits; commit k adds to commit k - 1
RemoteStaged(k) ==
    [x \in {Names[i] : i \in 1..(IF k = 1 THEN 1 ELSE Len(Names))} |->
        IF PathIndex(x) = 1 THEN 1 ELSE k]
RemoteVEntries(k) == split_into_vnodes(DirEntries(RemoteStaged(k)))
RemoteCommitId(k) == compute_commit_id(RemoteVEntries(k), <<Root>>)
RemotePlan(k) == write_commit_entries(RemoteCommitId(k), RemoteVEntries(k), <<Root>>)
RemoteIndex(id) == CHOOSE k \in 1..MaxRemote : RemoteCommitId(k) = id
RemoteIds == {RemoteCommitId(k) : k \in 1..MaxRemote}

RECURSIVE ApplyPlan(_, _, _)
ApplyPlan(ns, plan, i) ==
    IF i > Len(plan) THEN CloseAll(ns) ELSE ApplyPlan(ApplyOp(ns, plan[i]), plan, i + 1)

RECURSIVE RemoteNodesUpTo(_)
\* the node dbs of the remote once commits 1..k are written
RemoteNodesUpTo(k) ==
    IF k = 0 THEN EmptyMap ELSE ApplyPlan(RemoteNodesUpTo(k - 1), RemotePlan(k), 1)
RemoteStore == RemoteNodesUpTo(MaxRemote)

\* the node dbs that make up the tree of remote commit k, root first
TreeHashes(k) ==
    LET opens == SelectSeq(RemotePlan(k), LAMBDA o : o.op = "open")
    IN  [i \in 1..Len(opens) |-> opens[i].db]
BlobsOf(k) == {FileHash(RemoteStaged(k)[x]) : x \in DOMAIN RemoteStaged(k)}

RECURSIVE TreesDown(_, _)
\* the trees of the commits hi, hi - 1, .., lo + 1
TreesDown(hi, lo) == IF hi <= lo THEN <<>> ELSE TreeHashes(hi) \o TreesDown(hi - 1, lo)
\* a download of the tree of the commit alone, without its ancestors
download_trees_head_only(id) == TreeHashes(RemoteIndex(id))
\* api::client::tree::download_trees_from: the commit's tree and its ancestors'
download_trees_from(id) == TreesDown(RemoteIndex(id), 0)
\* api::client::tree::download_trees_between: the trees after base up to head
download_trees_between(base, id) == TreesDown(RemoteIndex(id), RemoteIndex(base))

\* the commits whose trees and dir hashes this fetch downloads
FetchBase ==
    IF HasHeadCommit /\ branches[head] \in rcommits THEN RemoteIndex(branches[head]) ELSE 0
FetchRange == {RemoteCommitId(k) : k \in (FetchBase + 1)..RemoteIndex(cur.id)}

RECURSIVE UnsyncedDown(_)
UnsyncedDown(k) ==
    IF k = 0 THEN <<>>
    ELSE (IF RemoteCommitId(k) \in synced THEN <<>> ELSE <<RemoteCommitId(k)>>)
         \o UnsyncedDown(k - 1)
\* repositories::commits::list_unsynced_from
list_unsynced_from(id) == UnsyncedDown(RemoteIndex(id))
\* the commits whose entries are fetched: all unsynced ones, or the head alone
SyncCommits == IF fetching.all THEN list_unsynced_from(cur.id) ELSE <<cur.id>>

RECURSIVE list_all_files(_, _, _)
\* repositories::tree::list_all_files: the file nodes below node h of store ns
list_all_files(ns, h, depth) ==
    IF depth = 0 \/ h \notin DOMAIN ns THEN <<>>
    ELSE LET cs == ns[h].children
             F[i \in 0..Len(cs)] ==
                 IF i = 0 THEN <<>>
                 ELSE F[i - 1] \o (IF cs[i].dtype = "File" THEN <<cs[i]>>
                                   ELSE IF cs[i].hash = h THEN <<>>
                                   ELSE list_all_files(ns, cs[i].hash, depth - 1))
         IN  F[Len(cs)]

RECURSIVE collect_missing_entries(_, _)
\* every file of the commits cs[i..] becomes an entry to pull
collect_missing_entries(cs, i) ==
    IF i > Len(cs) THEN <<>>
    ELSE list_all_files(nodes, cs[i], TreeDepth) \o collect_missing_entries(cs, i + 1)

\* ------------------------------------------------ fetch_remote_branch
FetchBegin(b, all) ==
    /\ scenario = "fetch" /\ pc = "idle"
    /\ nfetches < MaxFetches
    /\ fetching' = [branch |-> b, all |-> all]
    /\ pre' = Refs
    /\ idx' = 1
    /\ IF b \in DOMAIN rbranches
       THEN pc' = "f_head" /\ cur' = [NoCommit EXCEPT !.id = rbranches[b]]
       ELSE pc' = "err" /\ cur' = [NoCommit EXCEPT !.failed_at = "f_branch"]
    /\ UNCHANGED <<scenario, auxVars, localVars, sealed, ncommits, remoteVars, pushVars,
                   synced, shallow, nfetches>>

\* up to date when the local head commit is the remote one: the ref is
\* written and fetch returns; else the trees to download are chosen
FetchHead ==
    /\ pc = "f_head"
    /\ IF HasHeadCommit /\ branches[head] = cur.id
       THEN /\ branches' = set_branch_commit_id(branches, fetching.branch, cur.id)
            /\ pc' = "ok"
            /\ UNCHANGED cur
       ELSE /\ cur' = [cur EXCEPT !.plan =
                          IF HasHeadCommit /\ branches[head] \in rcommits
                          THEN download_trees_between(branches[head], cur.id)
                          ELSE download_trees_from(cur.id)]
            /\ pc' = "f_trees"
            /\ UNCHANGED branches
    /\ UNCHANGED <<scenario, version, head, staged, nodes, commits, history, versions,
                   idx, pre, sealed, ncommits, otherVars>>

\* an unpacking that appends to a node db the store already has
FetchTreeAppends ==
    /\ pc = "f_trees" /\ idx <= Len(cur.plan)
    /\ nodes' = [h \in DOMAIN nodes \cup {cur.plan[idx]} |->
                    IF h # cur.plan[idx] THEN nodes[h]
                    ELSE IF h \in DOMAIN nodes
                         THEN [nodes[h] EXCEPT !.children = @ \o RemoteStore[h].children]
                         ELSE RemoteStore[h]]
    /\ idx' = idx + 1
    /\ UNCHANGED <<scenario, version, head, branches, staged, commits, history, versions,
                   pc, cur, pre, sealed, ncommits, otherVars>>

\* one node db of the archive is unpacked
FetchTree ==
    /\ pc = "f_trees" /\ idx <= Len(cur.plan)
    /\ nodes' = [h \in DOMAIN nodes \cup {cur.plan[idx]} |->
                    IF h = cur.plan[idx] THEN RemoteStore[h] ELSE nodes[h]]
    /\ idx' = idx + 1
    /\ UNCHANGED <<scenario, version, head, branches, staged, commits, history, versions,
                   pc, cur, pre, sealed, ncommits, otherVars>>

FetchTreesDone ==
    /\ pc = "f_trees" /\ idx > Len(cur.plan)
    /\ pc' = "f_dirhashes"
    /\ UNCHANGED <<scenario, localVars, cur, idx, pre, sealed, ncommits, otherVars>>

\* download_dir_hashes_from_commit / download_base_head_dir_hashes
FetchDirHashes ==
    /\ pc = "f_dirhashes"
    /\ history' = [c \in DOMAIN history \cup FetchRange |->
                      IF c \in FetchRange THEN {Root} ELSE history[c]]
    /\ pc' = "f_collect"
    /\ UNCHANGED <<scenario, version, head, branches, staged, nodes, commits, versions,
                   cur, idx, pre, sealed, ncommits, otherVars>>

\* a fetch that writes the ref once the files to pull are collected
FetchCollectSetsRef ==
    /\ pc = "f_collect"
    /\ \A i \in 1..Len(SyncCommits) : SyncCommits[i] \in DOMAIN nodes
    /\ cur' = [cur EXCEPT !.entries = collect_missing_entries(SyncCommits, 1)]
    /\ branches' = set_branch_commit_id(branches, fetching.branch, cur.id)
    /\ idx' = 1
    /\ pc' = "f_entries"
    /\ UNCHANGED <<scenario, version, head, staged, nodes, commits, history, versions,
                   pre, sealed, ncommits, otherVars>>

\* a fetch that marks the commits as synced once their files are collected
FetchCollectMarksSynced ==
    /\ pc = "f_collect"
    /\ \A i \in 1..Len(SyncCommits) : SyncCommits[i] \in DOMAIN nodes
    /\ cur' = [cur EXCEPT !.entries = collect_missing_entries(SyncCommits, 1)]
    /\ synced' = synced \cup {SyncCommits[i] : i \in 1..Len(SyncCommits)}
    /\ idx' = 1
    /\ pc' = "f_entries"
    /\ UNCHANGED <<scenario, auxVars, localVars, pre, sealed, ncommits, remoteVars, pushVars,
                   shallow, fetching, nfetches>>

\* the commits to sync are read from the local trees and their files collected
FetchCollect ==
    /\ pc = "f_collect"
    /\ \A i \in 1..Len(SyncCommits) : SyncCommits[i] \in DOMAIN nodes
    /\ cur' = [cur EXCEPT !.entries = collect_missing_entries(SyncCommits, 1)]
    /\ idx' = 1
    /\ pc' = "f_entries"
    /\ UNCHANGED <<scenario, localVars, pre, sealed, ncommits, otherVars>>

\* pull_entries_to_versions_dir, one entry at a time
FetchEntry ==
    /\ pc = "f_entries" /\ idx <= Len(cur.entries)
    /\ versions' = versions \cup {cur.entries[idx].hash}
    /\ idx' = idx + 1
    /\ UNCHANGED <<scenario, version, head, branches, staged, nodes, commits, history,
                   pc, cur, pre, sealed, ncommits, otherVars>>

FetchEntriesDone ==
    /\ pc = "f_entries" /\ idx > Len(cur.entries)
    /\ pc' = "f_shallow"
    /\ UNCHANGED <<scenario, localVars, cur, idx, pre, sealed, ncommits, otherVars>>

\* repo.write_is_shallow(false)
FetchShallow ==
    /\ pc = "f_shallow"
    /\ shallow' = FALSE
    /\ pc' = "f_sync"
    /\ UNCHANGED <<scenario, auxVars, localVars, cur, idx, pre, sealed, ncommits, remoteVars,
                   pushVars, synced, fetching, nfetches>>

\* a fetch that writes the ref when it marks the commits as synced
FetchSyncSetsRef ==
    /\ pc = "f_sync"
    /\ synced' = synced \cup {SyncCommits[i] : i \in 1..Len(SyncCommits)}
    /\ branches' = set_branch_commit_id(branches, fetching.branch, cur.id)
    /\ pc' = "f_ref"
    /\ UNCHANGED <<scenario, auxVars, version, head, staged, nodes, commits, history, versions,
                   cur, idx, pre, sealed, ncommits, remoteVars,
                   pushVars, shallow, fetching, nfetches>>

\* mark_commit_as_synced for each commit
FetchSync ==
    /\ pc = "f_sync"
    /\ synced' = synced \cup {SyncCommits[i] : i \in 1..Len(SyncCommits)}
    /\ pc' = "f_ref"
    /\ UNCHANGED <<scenario, auxVars, localVars, cur, idx, pre, sealed, ncommits, remoteVars,
                   pushVars, shallow, fetching, nfetches>>

\* the local ref of the branch is written last
FetchSetRef ==
    /\ pc = "f_ref"
    /\ branches' = set_branch_commit_id(branches, fetching.branch, cur.id)
    /\ pc' = "ok"
    /\ UNCHANGED <<scenario, version, head, staged, nodes, commits, history, versions,
                   cur, idx, pre, sealed, ncommits, otherVars>>

FetchFalliblePc == {"f_head", "f_trees", "f_dirhashes", "f_collect", "f_entries",
                    "f_shallow", "f_sync", "f_ref"}

\* any request or write of the fetch returns Err
FetchFail ==
    /\ pc \in FetchFalliblePc
    /\ cur' = [cur EXCEPT !.failed_at = pc]
    /\ pc' = "err"
    /\ UNCHANGED <<scenario, localVars, idx, pre, sealed, ncommits, otherVars>>

FetchFinish ==
    /\ scenario = "fetch" /\ pc \in {"ok", "err"}
    /\ pc' = "idle"
    /\ nfetches' = nfetches + 1
    /\ cur' = NoCommit
    /\ idx' = 1
    /\ pre' = Refs
    /\ fetching' = NoFetch
    /\ UNCHANGED <<scenario, auxVars, localVars, sealed, ncommits, remoteVars, pushVars,
                   synced, shallow>>

InitFetch ==
    /\ scenario = "fetch"
    /\ version = "v0_19_0"
    /\ rcommits = RemoteIds
    /\ rentries = RemoteIds
    /\ rbranches \in {(DEFAULT_BRANCH_NAME :> RemoteCommitId(MaxRemote)),
                      (DEFAULT_BRANCH_NAME :> RemoteCommitId(MaxRemote))
                          @@ (OtherBranch :> RemoteCommitId(1))}
    /\ \/ /\ head = NoHead /\ branches = EmptyMap /\ nodes = EmptyMap
          /\ history = EmptyMap /\ versions = {} /\ synced = {} /\ shallow = TRUE
       \/ /\ head = DEFAULT_BRANCH_NAME
          /\ branches = (DEFAULT_BRANCH_NAME :> RemoteCommitId(1))
          /\ nodes = RemoteNodesUpTo(1)
          /\ history = (RemoteCommitId(1) :> {Root})
          /\ versions = BlobsOf(1)
          /\ synced = {RemoteCommitId(1)}
          /\ shallow = FALSE
    /\ staged = EmptyMap /\ commits = {} /\ sealed = EmptyMap /\ ncommits = 0
    /\ pc = "idle" /\ cur = NoCommit /\ idx = 1
    /\ pre = [head |-> head, branches |-> branches]
    /\ ppc = EmptyMap /\ expected = EmptyMap /\ pidx = EmptyMap
    /\ fetching = NoFetch /\ nfetches = 0
    /\ calc = NoCalc /\ ndb = NoNodeDB /\ co = NoCheckout /\ mig = NoMigration

NextFetch ==
    \/ \E b \in BranchNames, all \in BOOLEAN : FetchBegin(b, all)
    \/ FetchHead
    \/ FetchTree
    \/ FetchTreesDone
    \/ FetchDirHashes
    \/ FetchCollect
    \/ FetchEntry
    \/ FetchEntriesDone
    \/ FetchShallow
    \/ FetchSync
    \/ FetchSetRef
    \/ FetchFail
    \/ FetchFinish

SpecFetch == InitFetch /\ [][NextFetch]_vars

\* ------------------------------------------------------------- push
\* two clones of the remote, each with MaxPush commits of its own on top of
\* the commit the remote branch holds, and a repository of its own ("p3")
\* with another root commit; a commit id lists its ancestry
Pushers == {"p1", "p2", "p3"}
RootCommit == Digest(<<>>)
PusherTag(p) == IF p = "p1" THEN 1 ELSE IF p = "p2" THEN 2 ELSE 3
LocalRoot(p) == IF p = "p3" THEN <<PusherTag(p)>> ELSE RootCommit
ChainCommit(p, k) == LocalRoot(p) \o [i \in 1..k |-> PusherTag(p)]
parent_ids(c) == IF Len(c) = 1 THEN <<>> ELSE <<SubSeq(c, 1, Len(c) - 1)>>
IsAncestor(x, y) == Len(x) <= Len(y) /\ SubSeq(y, 1, Len(x)) = x
\* CommitReader::root_commit of the remote
root_commit == {c \in rcommits : parent_ids(c) = <<>>}

\* the push reads the remote head; it goes on when the head is in its history
PushRead(p) ==
    /\ scenario = "push" /\ ppc[p] = "idle"
    /\ expected' = [expected EXCEPT ![p] = rbranches[DEFAULT_BRANCH_NAME]]
    /\ ppc' = [ppc EXCEPT ![p] =
                  IF IsAncestor(rbranches[DEFAULT_BRANCH_NAME], ChainCommit(p, MaxPush))
                  THEN "post" ELSE "conflict"]
    /\ UNCHANGED <<scenario, auxVars, localVars, commitVars, remoteVars, pidx, fetchVars>>

\* the push of a repository whose root the remote does not have: none of its
\* commits is reachable from the remote head, the oldest to send is its root
PushUnrelated(p) ==
    /\ scenario = "push" /\ ppc[p] = "idle"
    /\ LocalRoot(p) \notin rcommits
    /\ expected' = [expected EXCEPT ![p] = rbranches[DEFAULT_BRANCH_NAME]]
    /\ pidx' = [pidx EXCEPT ![p] = 0]
    /\ ppc' = [ppc EXCEPT ![p] = "post"]
    /\ UNCHANGED <<scenario, auxVars, localVars, commitVars, remoteVars, fetchVars>>

\* a handler that takes a commit without parents whatever the root is
create_commit_object_any_root(p, ok) ==
    /\ scenario = "push" /\ ppc[p] = "post"
    /\ LET commit == ChainCommit(p, pidx[p])
       IN  /\ ppc' = [ppc EXCEPT ![p] = "entries"]
           /\ IF ok
              THEN /\ rcommits' = rcommits \cup {commit}
                   /\ rbranches' = set_branch_commit_id(rbranches,
                                                        DEFAULT_BRANCH_NAME, commit)
                   /\ UNCHANGED rentries
              ELSE UNCHANGED remoteVars
    /\ UNCHANGED <<scenario, auxVars, localVars, commitVars, expected, pidx, fetchVars>>

\* a handler that sets the branch whether or not the commit was added
create_commit_object_sets_branch_always(p, ok) ==
    /\ scenario = "push" /\ ppc[p] = "post"
    /\ LET commit == ChainCommit(p, pidx[p])
       IN  IF root_commit # {} /\ parent_ids(commit) = <<>> /\ commit \notin root_commit
           THEN /\ ppc' = [ppc EXCEPT ![p] = "err"]
                /\ UNCHANGED remoteVars
           ELSE /\ ppc' = [ppc EXCEPT ![p] = "entries"]
                /\ rcommits' = IF ok THEN rcommits \cup {commit} ELSE rcommits
                /\ rbranches' = set_branch_commit_id(rbranches, DEFAULT_BRANCH_NAME, commit)
                /\ UNCHANGED rentries
    /\ UNCHANGED <<scenario, auxVars, localVars, commitVars, expected, pidx, fetchVars>>

\* the remote handles the commit object of a push: an unrelated root is
\* refused; the commit is added to the db and, when that succeeds (ok), the
\* branch is set to it; when it fails the error is logged and Ok returned
create_commit_object_with_committers(p, ok) ==
    /\ scenario = "push" /\ ppc[p] = "post"
    /\ LET commit == ChainCommit(p, pidx[p])
       IN  IF root_commit # {} /\ parent_ids(commit) = <<>> /\ commit \notin root_commit
           THEN /\ ppc' = [ppc EXCEPT ![p] = "err"]
                /\ UNCHANGED remoteVars
           ELSE /\ ppc' = [ppc EXCEPT ![p] = "entries"]
                /\ IF ok
                   THEN /\ rcommits' = rcommits \cup {commit}
                        /\ rbranches' = set_branch_commit_id(rbranches,
                                                             DEFAULT_BRANCH_NAME, commit)
                        /\ UNCHANGED rentries
                   ELSE UNCHANGED remoteVars
    /\ UNCHANGED <<scenario, auxVars, localVars, commitVars, expected, pidx, fetchVars>>

\* the entries of the commit arrive and are unpacked; the next commit follows
UploadEntries(p) ==
    /\ scenario = "push" /\ ppc[p] = "entries"
    /\ rentries' = rentries \cup {ChainCommit(p, pidx[p])}
    /\ pidx' = [pidx EXCEPT ![p] = @ + 1]
    /\ ppc' = [ppc EXCEPT ![p] = IF pidx[p] >= MaxPush THEN "done" ELSE "post"]
    /\ UNCHANGED <<scenario, auxVars, localVars, commitVars, rbranches, rcommits, expected, fetchVars>>

\* a request of the push fails
PushFail(p) ==
    /\ scenario = "push" /\ ppc[p] \in {"post", "entries"}
    /\ ppc' = [ppc EXCEPT ![p] = "err"]
    /\ UNCHANGED <<scenario, auxVars, localVars, commitVars, remoteVars, expected, pidx, fetchVars>>

InitPush ==
    /\ scenario = "push"
    /\ version = "v0_19_0"
    /\ head = NoHead /\ branches = EmptyMap /\ staged = EmptyMap /\ nodes = EmptyMap
    /\ commits = {} /\ history = EmptyMap /\ versions = {}
    /\ pc = "idle" /\ cur = NoCommit /\ idx = 1
    /\ pre = [head |-> NoHead, branches |-> EmptyMap]
    /\ sealed = EmptyMap /\ ncommits = 0
    /\ rbranches = (DEFAULT_BRANCH_NAME :> RootCommit)
    /\ rcommits = {RootCommit}
    /\ rentries = {RootCommit}
    /\ ppc = [p \in Pushers |-> "idle"]
    /\ expected = [p \in Pushers |-> <<>>]
    /\ pidx = [p \in Pushers |-> 1]
    /\ synced = {} /\ shallow = FALSE /\ fetching = NoFetch /\ nfetches = 0
    /\ calc = NoCalc /\ ndb = NoNodeDB /\ co = NoCheckout /\ mig = NoMigration

NextPush ==
    \/ \E p \in Pushers : PushRead(p)
    \/ \E p \in Pushers : PushUnrelated(p)
    \/ \E p \in Pushers, ok \in BOOLEAN : create_commit_object_with_committers(p, ok)
    \/ \E p \in Pushers : UploadEntries(p)
    \/ \E p \in Pushers : PushFail(p)

SpecPush == InitPush /\ [][NextPush]_vars

\* command::commit with no added entries prints a message and returns Ok(None)
CommandCommitNothingStaged ==
    /\ scenario = "commit" /\ pc = "idle" /\ version = "v0_10_0"
    /\ ncommits < MaxCommits
    /\ DOMAIN staged = {}
    /\ cur' = NoCommit
    /\ pre' = Refs
    /\ pc' = "nothing"
    /\ UNCHANGED <<scenario, otherVars, localVars, idx, sealed, ncommits>>

\* core::v0_10_0::commits::commit with nothing staged returns NothingToCommit
CommitsCommitNothingStaged ==
    /\ scenario = "commit" /\ pc = "idle" /\ version = "v0_10_0"
    /\ ncommits < MaxCommits
    /\ DOMAIN staged = {}
    /\ cur' = [NoCommit EXCEPT !.failed_at = "status", !.error = "NothingToCommit"]
    /\ pre' = Refs
    /\ pc' = "err"
    /\ UNCHANGED <<scenario, otherVars, localVars, idx, sealed, ncommits>>

\* ---------------------------------------------------------------- spec
InitCommit ==
    /\ scenario = "commit"
    /\ version \in Versions
    /\ head = NoHead
    /\ branches = EmptyMap
    /\ staged = EmptyMap
    /\ nodes = EmptyMap
    /\ commits = {}
    /\ history = EmptyMap
    /\ versions = {}
    /\ pc = "idle"
    /\ cur = NoCommit
    /\ idx = 1
    /\ pre = [head |-> NoHead, branches |-> EmptyMap]
    /\ sealed = EmptyMap
    /\ ncommits = 0
    /\ rbranches = EmptyMap
    /\ rcommits = {}
    /\ rentries = {}
    /\ ppc = EmptyMap
    /\ expected = EmptyMap
    /\ pidx = EmptyMap
    /\ synced = {}
    /\ shallow = FALSE
    /\ fetching = NoFetch
    /\ nfetches = 0
    /\ calc = NoCalc /\ ndb = NoNodeDB /\ co = NoCheckout /\ mig = NoMigration

Init == InitCommit \/ InitFetch \/ InitPush

NextCommit ==
    \/ \E p \in NameSet, h \in FileHashes : Add(p, h)
    \/ CommitBegin
    \/ CommitParents
    \/ CommitWriteStep
    \/ CommitWritten
    \/ CommitSetHead
    \/ CommitSetBranch
    \/ CommitSetHeadCommit
    \/ CommitReturn
    \/ CommitFail
    \/ CommitFinish
    \/ LegacyBegin
    \/ LegacyAddCommit
    \/ LegacyNewEntryWriter
    \/ LegacyOpenDirDb
    \/ LegacyCommitEntry
    \/ LegacyEntriesDone
    \/ LegacyAdvance
    \/ LegacyUnstage
    \/ CommandCommitNothingStaged
    \/ CommitsCommitNothingStaged

SpecCommit == InitCommit /\ [][NextCommit]_vars

Next == NextCommit \/ NextFetch \/ NextPush

Spec == Init /\ [][Next]_vars

\* --------------------------------------------- hashing of a working tree
\* commits hashed over one working tree in one behaviour
MaxRuns == 2

\* message, author, email and timestamp of a commit, and variants of them
\* that differ in one field
BaseMeta == [message |-> "m1", author |-> "u1", email |-> "e1", timestamp |-> 1]
Metas ==
    {BaseMeta,
     [BaseMeta EXCEPT !.message = "m2"],
     [BaseMeta EXCEPT !.author = "u2"],
     [BaseMeta EXCEPT !.email = "e2"],
     [BaseMeta EXCEPT !.timestamp = 2]}

\* parent_ids: first commit, or the head commit
ParentLists == {<<>>, <<Digest(<<1>>)>>}

\* working trees: files at some of the paths
Trees == UNION {[S -> FileHashes] : S \in (SUBSET PathSet) \ {{}}}

\* the orders in which a HashMap with the keys ds may yield them
Orders(ds) ==
    {o \in [1..Cardinality(ds) -> ds] : \A i, j \in 1..Cardinality(ds) : i # j => o[i] # o[j]}

Reverse(s) == [i \in 1..Len(s) |-> s[Len(s) + 1 - i]]

\* the orders in which the files of a tree are staged: by path, or the reverse
StageOrders(tree) ==
    LET ps == SelectSeq(Paths, LAMBDA p : p \in DOMAIN tree)
    IN  {ps, Reverse(ps)}

RECURSIVE StageAll(_, _, _, _)
\* the staging db after the files puts[i..] of the tree are added to db in turn
StageAll(db, tree, puts, i) ==
    IF i > Len(puts) THEN db
    ELSE StageAll([x \in DOMAIN db \cup {puts[i]} |->
                      IF x = puts[i] THEN tree[puts[i]] ELSE db[x]],
                  tree, puts, i + 1)

\* one commit hashed: what the commit writer computes from the staging db
\* before it writes anything
HashRun(tree, puts, order, meta, parents) ==
    LET st == StageAll(EmptyMap, tree, puts, 1)
        ventries == split_into_vnodes(DirEntries(st))
        commit_id == compute_commit_id(ventries, order)
    IN  [puts |-> puts, order |-> order, meta |-> meta, parent_ids |-> parents,
         commit_id |-> commit_id,
         dir_hashes |-> [d \in DOMAIN ventries \cup {Root} |->
                            aggregate_dir_node(commit_id, ventries, order, d).hash]]

\* a commit over the tree: files staged in the order puts, the HashMap of
\* directories iterated in the order order
HashCommit(puts, order, meta, parents) ==
    /\ scenario = "hash"
    /\ Len(calc.runs) < MaxRuns
    /\ calc' = [calc EXCEPT !.runs = Append(@, HashRun(calc.tree, puts, order, meta, parents))]
    /\ UNCHANGED <<scenario, localVars, commitVars, remoteVars, pushVars, fetchVars, ndb, co, mig>>

InitHash ==
    /\ scenario = "hash"
    /\ version = "v0_19_0"
    /\ head = NoHead /\ branches = EmptyMap /\ staged = EmptyMap /\ nodes = EmptyMap
    /\ commits = {} /\ history = EmptyMap /\ versions = {}
    /\ pc = "idle" /\ cur = NoCommit /\ idx = 1
    /\ pre = [head |-> NoHead, branches |-> EmptyMap]
    /\ sealed = EmptyMap /\ ncommits = 0
    /\ rbranches = EmptyMap /\ rcommits = {} /\ rentries = {}
    /\ ppc = EmptyMap /\ expected = EmptyMap /\ pidx = EmptyMap
    /\ synced = {} /\ shallow = FALSE /\ fetching = NoFetch /\ nfetches = 0
    /\ \E tree \in Trees : calc = [NoCalc EXCEPT !.tree = tree]
    /\ ndb = NoNodeDB /\ co = NoCheckout /\ mig = NoMigration

NextHash ==
    \E puts \in StageOrders(calc.tree), order \in Orders({Parent(p) : p \in DOMAIN calc.tree}),
       meta \in Metas, parents \in ParentLists :
        HashCommit(puts, order, meta, parents)

SpecHash == InitHash /\ [][NextHash]_vars

\* ------------------------------------------------- vnodes of a directory
\* directory sizes are taken up to this far on either side of a threshold
CountWindow == 8
\* the sizes at which the number of vnodes is to double: p * 10000 children
Thresholds == {p * VNodeSize : p \in {1, 2, 4, 1024, 2048}}
\* the directory sizes tried
ChildCounts ==
    (0..CountWindow) \cup UNION {(t - CountWindow)..(t + CountWindow) : t \in Thresholds}

\* split_into_vnodes sizes the vnode vector of a directory
VNodeCount ==
    /\ scenario = "vnodes"
    /\ calc.num_vnodes = 0
    /\ calc' = [calc EXCEPT !.num_vnodes = NumVNodes(calc.children)]
    /\ UNCHANGED <<scenario, localVars, commitVars, remoteVars, pushVars, fetchVars, ndb, co, mig>>

InitVNodes ==
    /\ scenario = "vnodes"
    /\ version = "v0_19_0"
    /\ head = NoHead /\ branches = EmptyMap /\ staged = EmptyMap /\ nodes = EmptyMap
    /\ commits = {} /\ history = EmptyMap /\ versions = {}
    /\ pc = "idle" /\ cur = NoCommit /\ idx = 1
    /\ pre = [head |-> NoHead, branches |-> EmptyMap]
    /\ sealed = EmptyMap /\ ncommits = 0
    /\ rbranches = EmptyMap /\ rcommits = {} /\ rentries = {}
    /\ ppc = EmptyMap /\ expected = EmptyMap /\ pidx = EmptyMap
    /\ synced = {} /\ shallow = FALSE /\ fetching = NoFetch /\ nfetches = 0
    /\ \E n \in ChildCounts : calc = [NoCalc EXCEPT !.children = n]
    /\ ndb = NoNodeDB /\ co = NoCheckout /\ mig = NoMigration

NextVNodes == VNodeCount

SpecVNodes == InitVNodes /\ [][NextVNodes]_vars

\* ------------------------------------------------ core::db MerkleNodeDB
\* children one writer writes to a node db
MaxItems == 2
\* hashes of the children (the test writes 1234 and 5678)
NodeHashes == {1234, 5678}
\* rmp markers: an array of two fields, a string of length n
FixArray2 == 146
FixStr == 160
DtypeCode(dtype) == IF dtype = "VNode" THEN 0 ELSE 1
\* the items written: merkle nodes whose serializations differ in length
Items == {[dtype |-> "VNode", path |-> <<97>>], [dtype |-> "Dir", path |-> <<97, 98>>]}
NoItem == [dtype |-> "", path |-> <<>>]

\* item.serialize(&mut Serializer::new(&mut buf))
Serialize(item) == <<FixArray2, DtypeCode(item.dtype), FixStr + Len(item.path)>> \o item.path

\* rmp_serde::from_slice(&data)
Deserialize(bytes) ==
    IF /\ Len(bytes) >= 3
       /\ bytes[1] = FixArray2
       /\ bytes[2] \in {0, 1}
       /\ bytes[3] = FixStr + (Len(bytes) - 3)
    THEN [ok |-> TRUE,
          item |-> [dtype |-> IF bytes[2] = 0 THEN "VNode" ELSE "Dir",
                    path |-> SubSeq(bytes, 4, Len(bytes))]]
    ELSE [ok |-> FALSE, item |-> NoItem]

\* the sequences of children a writer is given
Plans == UNION {[1..n -> [hash : NodeHashes, item : Items]] : n \in 0..MaxItems}

\* open(path, false): File::create(lookup_path) creates or truncates the file
WriterCreateLookup ==
    /\ scenario = "nodedb" /\ ndb.w.state = "new"
    /\ ndb' = [ndb EXCEPT !.lookup_exists = TRUE, !.lookup = <<>>,
                          !.w.state = "lookup_created"]
    /\ UNCHANGED <<scenario, localVars, commitVars, remoteVars, pushVars, fetchVars, calc, co, mig>>

\* open(path, false): File::create(data_path); the handle starts at size 0, offset 0
WriterCreateData ==
    /\ scenario = "nodedb" /\ ndb.w.state = "lookup_created"
    /\ ndb' = [ndb EXCEPT !.data_exists = TRUE, !.data = <<>>,
                          !.w = [NoWriter EXCEPT !.state = "open"]]
    /\ UNCHANGED <<scenario, localVars, commitVars, remoteVars, pushVars, fetchVars, calc, co, mig>>

\* write_size(n) for the n children of the plan: the count goes to the lookup file
write_size ==
    /\ scenario = "nodedb" /\ ndb.w.state = "open"
    /\ ndb.w.size = 0 /\ ndb.w.data_offset = 0
    /\ ndb' = [ndb EXCEPT !.lookup = Append(@, Len(ndb.plan)),
                          !.w.size = Len(ndb.plan),
                          !.w.state = "writing"]
    /\ UNCHANGED <<scenario, localVars, commitVars, remoteVars, pushVars, fetchVars, calc, co, mig>>

\* write_one, the three write_all calls on the lookup file: hash, data_offset, data_len
WriteOneLookup ==
    /\ scenario = "nodedb" /\ ndb.w.state = "writing"
    /\ ndb.w.size # 0
    /\ ndb.w.k <= Len(ndb.plan) /\ ndb.w.field < 3
    /\ LET c == ndb.plan[ndb.w.k]
           word == CASE ndb.w.field = 0 -> c.hash
                     [] ndb.w.field = 1 -> ndb.w.data_offset
                     [] ndb.w.field = 2 -> Len(Serialize(c.item))
       IN  ndb' = [ndb EXCEPT !.lookup = Append(@, word), !.w.field = @ + 1]
    /\ UNCHANGED <<scenario, localVars, commitVars, remoteVars, pushVars, fetchVars, calc, co, mig>>

\* write_one that writes the data and leaves data_offset where it was
WriteOneDataKeepsOffset ==
    /\ scenario = "nodedb" /\ ndb.w.state = "writing"
    /\ ndb.w.k <= Len(ndb.plan) /\ ndb.w.field = 3
    /\ LET buf == Serialize(ndb.plan[ndb.w.k].item)
       IN  ndb' = [ndb EXCEPT !.data = @ \o buf,
                              !.w.k = @ + 1, !.w.field = 0]
    /\ UNCHANGED <<scenario, localVars, commitVars, remoteVars, pushVars, fetchVars, calc, co, mig>>

\* write_one, after the lookup record: the serialized item goes to the data
\* file and data_offset advances by its length
WriteOneData ==
    /\ scenario = "nodedb" /\ ndb.w.state = "writing"
    /\ ndb.w.k <= Len(ndb.plan) /\ ndb.w.field = 3
    /\ LET buf == Serialize(ndb.plan[ndb.w.k].item)
       IN  ndb' = [ndb EXCEPT !.data = @ \o buf,
                              !.w.data_offset = @ + Len(buf),
                              !.w.k = @ + 1, !.w.field = 0]
    /\ UNCHANGED <<scenario, localVars, commitVars, remoteVars, pushVars, fetchVars, calc, co, mig>>

\* close: both files are flushed and synced (the writes went to the files
\* when they were made) and the handles are given up
WriterClose ==
    /\ scenario = "nodedb" /\ ndb.w.state = "writing"
    /\ ndb.w.k > Len(ndb.plan)
    /\ ndb' = [ndb EXCEPT !.w.state = "closed"]
    /\ UNCHANGED <<scenario, localVars, commitVars, remoteVars, pushVars, fetchVars, calc, co, mig>>

\* the writer stops before close: its process ends, or a step returns Err
WriterStop ==
    /\ scenario = "nodedb" /\ ndb.w.state \in {"new", "lookup_created", "open", "writing"}
    /\ ndb' = [ndb EXCEPT !.w.state = "stopped"]
    /\ UNCHANGED <<scenario, localVars, commitVars, remoteVars, pushVars, fetchVars, calc, co, mig>>

\* greatest index of a record of the first n lookup records that holds hash h
LastRecord(lookup, n, h) ==
    CHOOSE i \in 1..n : lookup[3 * i - 1] = h /\ \A j \in 1..n : lookup[3 * j - 1] = h => j <= i

\* MerkleNodeLookup::load: the count, then count records of hash, offset and
\* length; read_exact fails when the file ends before that
load(lookup) ==
    IF Len(lookup) < 1 \/ Len(lookup) < 1 + 3 * lookup[1]
    THEN [ok |-> FALSE, size |-> 0, offsets |-> EmptyMap]
    ELSE LET n == lookup[1]
         IN  [ok |-> TRUE, size |-> n,
              offsets |-> [h \in {lookup[3 * i - 1] : i \in 1..n} |->
                              LET i == LastRecord(lookup, n, h)
                              IN  <<lookup[3 * i], lookup[3 * i + 1]>>]]

\* open(path, true): both files are opened and the lookup file is loaded
ReaderOpen ==
    /\ scenario = "nodedb" /\ ndb.r.state = "none"
    /\ LET l == load(ndb.lookup)
       IN  IF ndb.lookup_exists /\ ndb.data_exists /\ l.ok
           THEN ndb' = [ndb EXCEPT !.r = [state |-> "ok", size |-> l.size,
                                          offsets |-> l.offsets, got |-> EmptyMap,
                                          writer |-> ndb.w.state, listed |-> NoList]]
           ELSE ndb' = [ndb EXCEPT !.r = [NoReader EXCEPT !.state = "err",
                                                         !.writer = ndb.w.state]]
    /\ UNCHANGED <<scenario, localVars, commitVars, remoteVars, pushVars, fetchVars, calc, co, mig>>

\* get(hash) on the reader's lookup and the data file as it is now
get(offsets, data, hash) ==
    IF hash \notin DOMAIN offsets THEN [ok |-> FALSE, item |-> NoItem]
    ELSE LET offset == offsets[hash]
         IN  IF offset[1] + offset[2] > Len(data) THEN [ok |-> FALSE, item |-> NoItem]
             ELSE Deserialize(SubSeq(data, offset[1] + 1, offset[1] + offset[2]))

ReaderGet(hash) ==
    /\ scenario = "nodedb" /\ ndb.r.state = "ok"
    /\ hash \notin DOMAIN ndb.r.got
    /\ ndb' = [ndb EXCEPT !.r.got = [h \in DOMAIN @ \cup {hash} |->
                                        IF h = hash THEN get(ndb.r.offsets, ndb.data, hash)
                                        ELSE @[h]]]
    /\ UNCHANGED <<scenario, localVars, commitVars, remoteVars, pushVars, fetchVars, calc, co, mig>>

\* list(): the values of the lookup's offsets, read from the data file in the
\* order in which the HashMap of offsets yields its keys; a read that fails
\* ends the call
ReaderList(order) ==
    /\ scenario = "nodedb" /\ ndb.r.state = "ok"
    /\ ~ndb.r.listed.done
    /\ LET vals == [i \in 1..Len(order) |-> get(ndb.r.offsets, ndb.data, order[i])]
       IN  ndb' = [ndb EXCEPT !.r.listed =
                      IF \A i \in 1..Len(order) : vals[i].ok
                      THEN [done |-> TRUE, ok |-> TRUE,
                            items |-> [i \in 1..Len(order) |-> vals[i].item]]
                      ELSE [done |-> TRUE, ok |-> FALSE, items |-> <<>>]]
    /\ UNCHANGED <<scenario, localVars, commitVars, remoteVars, pushVars, fetchVars, calc, co, mig>>

InitNodeDB ==
    /\ scenario = "nodedb"
    /\ version = "v0_19_0"
    /\ head = NoHead /\ branches = EmptyMap /\ staged = EmptyMap /\ nodes = EmptyMap
    /\ commits = {} /\ history = EmptyMap /\ versions = {}
    /\ pc = "idle" /\ cur = NoCommit /\ idx = 1
    /\ pre = [head |-> NoHead, branches |-> EmptyMap]
    /\ sealed = EmptyMap /\ ncommits = 0
    /\ rbranches = EmptyMap /\ rcommits = {} /\ rentries = {}
    /\ ppc = EmptyMap /\ expected = EmptyMap /\ pidx = EmptyMap
    /\ synced = {} /\ shallow = FALSE /\ fetching = NoFetch /\ nfetches = 0
    /\ calc = NoCalc /\ co = NoCheckout /\ mig = NoMigration
    /\ \E plan \in Plans : ndb = [NoNodeDB EXCEPT !.plan = plan]

NextNodeDB ==
    \/ WriterCreateLookup
    \/ WriterCreateData
    \/ write_size
    \/ WriteOneLookup
    \/ WriteOneData
    \/ WriterClose
    \/ WriterStop
    \/ ReaderOpen
    \/ \E hash \in NodeHashes : ReaderGet(hash)
    \/ \E order \in Orders(DOMAIN ndb.r.offsets) : ReaderList(order)

SpecNodeDB == InitNodeDB /\ [][NextNodeDB]_vars

\* ------------------------------------------- migration to the merkle layout
\* commits of the legacy repository and runs of the migration
MaxMigCommits == 2
MaxMigRuns == 2

V0_10_0 == "0.10.0"
V0_19_0 == "0.19.0"

\* a legacy commit: whether its history dir is in the repository and whether
\* its dir_hashes db has an entry for the root
LegacyCommits == [downloaded : BOOLEAN, has_root : BOOLEAN]
LegacyRepos == UNION {[1..n -> LegacyCommits] : n \in 1..MaxMigCommits}

\* OptimizeMerkleTreesMigration::is_needed
is_needed == ~mig.tree_dir

\* a migration that records the minimum version when it begins
create_merkle_trees_up_version_first ==
    /\ scenario = "migrate" /\ mig.mpc = "idle" /\ mig.runs < MaxMigRuns
    /\ mig' = IF mig.tree_dir
              THEN [mig EXCEPT !.mpc = "skipped"]
              ELSE [mig EXCEPT !.tree_dir = TRUE, !.i = 1, !.mpc = "loop",
                               !.min_version = V0_19_0]
    /\ UNCHANGED <<scenario, localVars, commitVars, remoteVars, pushVars, fetchVars,
                   calc, ndb, co>>

\* create_merkle_trees_up, up to its loop: it returns when the tree dir
\* exists and creates it otherwise
create_merkle_trees_up ==
    /\ scenario = "migrate" /\ mig.mpc = "idle" /\ mig.runs < MaxMigRuns
    /\ mig' = IF mig.tree_dir
              THEN [mig EXCEPT !.mpc = "skipped"]
              ELSE [mig EXCEPT !.tree_dir = TRUE, !.i = 1, !.mpc = "loop"]
    /\ UNCHANGED <<scenario, localVars, commitVars, remoteVars, pushVars, fetchVars,
                   calc, ndb, co>>

\* one commit of the loop: skipped when its history dir is missing; else the
\* commit node db is written, and the tree of its root dir when the
\* dir_hashes db has the root
migrate_merkle_tree ==
    /\ scenario = "migrate" /\ mig.mpc = "loop" /\ mig.i <= Len(mig.commits)
    /\ LET c == mig.commits[mig.i]
       IN  mig' = [mig EXCEPT
                      !.i = @ + 1,
                      !.commit_dbs = IF c.downloaded THEN @ \cup {mig.i} ELSE @,
                      !.dir_dbs = IF c.downloaded /\ c.has_root THEN @ \cup {mig.i} ELSE @]
    /\ UNCHANGED <<scenario, localVars, commitVars, remoteVars, pushVars, fetchVars,
                   calc, ndb, co>>

\* after the loop the config gets min_version 0.19.0 and is saved
save_min_version ==
    /\ scenario = "migrate" /\ mig.mpc = "loop" /\ mig.i > Len(mig.commits)
    /\ mig' = [mig EXCEPT !.min_version = V0_19_0, !.mpc = "done"]
    /\ UNCHANGED <<scenario, localVars, commitVars, remoteVars, pushVars, fetchVars,
                   calc, ndb, co>>

\* a commit of the loop or the save of the config returns Err, or the run is
\* interrupted
MigrateFail ==
    /\ scenario = "migrate" /\ mig.mpc = "loop"
    /\ mig' = [mig EXCEPT !.mpc = "err"]
    /\ UNCHANGED <<scenario, localVars, commitVars, remoteVars, pushVars, fetchVars,
                   calc, ndb, co>>

\* the run is over
MigrateReturn ==
    /\ scenario = "migrate" /\ mig.mpc \in {"done", "skipped", "err"}
    /\ mig' = [mig EXCEPT !.mpc = "idle", !.runs = @ + 1]
    /\ UNCHANGED <<scenario, localVars, commitVars, remoteVars, pushVars, fetchVars,
                   calc, ndb, co>>

InitMigrate ==
    /\ scenario = "migrate"
    /\ version = "v0_10_0"
    /\ head = NoHead /\ branches = EmptyMap /\ staged = EmptyMap /\ nodes = EmptyMap
    /\ commits = {} /\ history = EmptyMap /\ versions = {}
    /\ pc = "idle" /\ cur = NoCommit /\ idx = 1
    /\ pre = [head |-> NoHead, branches |-> EmptyMap]
    /\ sealed = EmptyMap /\ ncommits = 0
    /\ rbranches = EmptyMap /\ rcommits = {} /\ rentries = {}
    /\ ppc = EmptyMap /\ expected = EmptyMap /\ pidx = EmptyMap
    /\ synced = {} /\ shallow = FALSE /\ fetching = NoFetch /\ nfetches = 0
    /\ calc = NoCalc /\ ndb = NoNodeDB /\ co = NoCheckout
    /\ \E repo \in LegacyRepos :
          mig = [NoMigration EXCEPT !.commits = repo, !.min_version = V0_10_0]

NextMigrate ==
    \/ create_merkle_trees_up
    \/ migrate_merkle_tree
    \/ save_min_version
    \/ MigrateFail
    \/ MigrateReturn

SpecMigrate == InitMigrate /\ [][NextMigrate]_vars

\* ---------------------------------------------------------------- checkout
\* checkouts in one behaviour
MaxCheckouts == 2

\* a repository with a parent commit and a new commit on top of it
ParentCommit == "c1"
NewCommit == "c2"
\* the files of a commit or of the working tree: path -> content hash
WorkTrees == UNION {[ps -> FileHashes] : ps \in SUBSET NameSet}

\* RefReader::has_branch
branch_exists(name) == name \in DOMAIN co.branches
\* RefReader::get_current_branch is the branch HEAD names
already_on_branch(name) == co.head = name
\* RefReader::head_commit_id: the commit of the branch HEAD names, or the
\* commit id HEAD holds
head_commit_id == IF co.head \in DOMAIN co.branches THEN co.branches[co.head] ELSE co.head
already_on_commit(commit_id) == head_commit_id = commit_id

\* CommitWriter::set_working_repo_to_commit_id: the working tree becomes the
\* files of the commit
set_working_repo_to_commit_id(commit_id) == co.trees[commit_id]
\* CommitWriter::set_working_repo_to_branch
set_working_repo_to_branch(name) == set_working_repo_to_commit_id(co.branches[name])

\* a checkout that, for a branch, moves HEAD and leaves the working tree alone
checkout_branch_head_only(value) ==
    /\ scenario = "checkout" /\ Len(co.log) < MaxCheckouts
    /\ co' = IF branch_exists(value)
             THEN IF already_on_branch(value)
                  THEN [co EXCEPT !.log = Append(@, value)]
                  ELSE [co EXCEPT !.head = value, !.log = Append(@, value)]
             ELSE IF already_on_commit(value)
                  THEN [co EXCEPT !.log = Append(@, value)]
                  ELSE [co EXCEPT !.files = set_working_repo_to_commit_id(value),
                                  !.head = value, !.log = Append(@, value)]
    /\ UNCHANGED <<scenario, localVars, commitVars, remoteVars, pushVars, fetchVars,
                   calc, ndb, mig>>

\* command::checkout of a branch name or a commit id
checkout(value) ==
    /\ scenario = "checkout" /\ Len(co.log) < MaxCheckouts
    /\ co' = IF branch_exists(value)
             THEN IF already_on_branch(value)
                  THEN [co EXCEPT !.log = Append(@, value)]
                  ELSE [co EXCEPT !.files = set_working_repo_to_branch(value),
                                  !.head = value, !.log = Append(@, value)]
             ELSE IF already_on_commit(value)
                  THEN [co EXCEPT !.log = Append(@, value)]
                  ELSE [co EXCEPT !.files = set_working_repo_to_commit_id(value),
                                  !.head = value, !.log = Append(@, value)]
    /\ UNCHANGED <<scenario, localVars, commitVars, remoteVars, pushVars, fetchVars,
                   calc, ndb, mig>>

\* the working tree W has just been committed as the new commit: on the
\* default branch, or on a branch created at the parent commit
InitCheckout ==
    /\ scenario = "checkout"
    /\ version = "v0_10_0"
    /\ head = NoHead /\ branches = EmptyMap /\ staged = EmptyMap /\ nodes = EmptyMap
    /\ commits = {} /\ history = EmptyMap /\ versions = {}
    /\ pc = "idle" /\ cur = NoCommit /\ idx = 1
    /\ pre = [head |-> NoHead, branches |-> EmptyMap]
    /\ sealed = EmptyMap /\ ncommits = 0
    /\ rbranches = EmptyMap /\ rcommits = {} /\ rentries = {}
    /\ ppc = EmptyMap /\ expected = EmptyMap /\ pidx = EmptyMap
    /\ synced = {} /\ shallow = FALSE /\ fetching = NoFetch /\ nfetches = 0
    /\ calc = NoCalc /\ ndb = NoNodeDB /\ mig = NoMigration
    /\ \E P \in WorkTrees, W \in WorkTrees \ {<<>>}, onBranch \in BOOLEAN :
          /\ P # W
          /\ co = [trees |-> (ParentCommit :> P) @@ (NewCommit :> W),
                   files |-> W,
                   head |-> IF onBranch THEN OtherBranch ELSE DEFAULT_BRANCH_NAME,
                   branches |-> IF onBranch
                                THEN (DEFAULT_BRANCH_NAME :> ParentCommit)
                                         @@ (OtherBranch :> NewCommit)
                                ELSE (DEFAULT_BRANCH_NAME :> NewCommit),
                   log |-> <<>>]

NextCheckout ==
    \E value \in {ParentCommit, NewCommit} \cup BranchNames :
        /\ (value \in BranchNames => branch_exists(value))
        /\ checkout(value)

SpecCheckout == InitCheckout /\ [][NextCheckout]_vars

\* ------------------------------------ MerkleNodeDB: calls on one handle
\* calls a client makes on one handle
MaxCalls == 4
\* the sizes a client passes to write_size
Sizes == 0..MaxItems

\* the outcome of one call: what was called, whether it returned Ok, and
\* whether the lookup or the data file changed
Called(call, ok, after) ==
    [call |-> call, ok |-> ok,
     changed |-> after.lookup # ndb.lookup \/ after.data # ndb.data]

\* write_size(size)
CallWriteSize(size) ==
    /\ scenario = "calls" /\ Len(ndb.calls) < MaxCalls
    /\ LET ok == /\ ~ndb.read_only
                 /\ ~(ndb.w.size > 0)
                 /\ ~(ndb.w.data_offset > 0)
                 /\ ndb.w.state = "open"
           after == IF ok THEN [ndb EXCEPT !.lookup = Append(@, size), !.w.size = size]
                    ELSE ndb
       IN  ndb' = [after EXCEPT !.calls = Append(@, Called("write_size", ok, after))]
    /\ UNCHANGED <<scenario, localVars, commitVars, remoteVars, pushVars, fetchVars, calc, co, mig>>

\* write_one(hash, item)
CallWriteOne(hash, item) ==
    /\ scenario = "calls" /\ Len(ndb.calls) < MaxCalls
    /\ LET ok == /\ ~ndb.read_only
                 /\ ~(ndb.w.size = 0)
                 /\ ndb.w.state = "open"
           buf == Serialize(item)
           after == IF ok
                    THEN [ndb EXCEPT !.lookup = @ \o <<hash, ndb.w.data_offset, Len(buf)>>,
                                     !.data = @ \o buf,
                                     !.w.data_offset = @ + Len(buf)]
                    ELSE ndb
       IN  ndb' = [after EXCEPT !.calls = Append(@, Called("write_one", ok, after))]
    /\ UNCHANGED <<scenario, localVars, commitVars, remoteVars, pushVars, fetchVars, calc, co, mig>>

\* close(): the files are flushed and the handles given up
CallClose ==
    /\ scenario = "calls" /\ Len(ndb.calls) < MaxCalls
    /\ LET ok == ndb.w.state = "open"
           after == IF ok THEN [ndb EXCEPT !.w.state = "closed"] ELSE ndb
       IN  ndb' = [after EXCEPT !.calls = Append(@, Called("close", ok, after))]
    /\ UNCHANGED <<scenario, localVars, commitVars, remoteVars, pushVars, fetchVars, calc, co, mig>>

\* the handle open(path, read_only) returns: size 0, data_offset 0; in write
\* mode both files are created empty, in read mode they are those of a db
\* written before, here one without children
InitCalls ==
    /\ scenario = "calls"
    /\ version = "v0_19_0"
    /\ head = NoHead /\ branches = EmptyMap /\ staged = EmptyMap /\ nodes = EmptyMap
    /\ commits = {} /\ history = EmptyMap /\ versions = {}
    /\ pc = "idle" /\ cur = NoCommit /\ idx = 1
    /\ pre = [head |-> NoHead, branches |-> EmptyMap]
    /\ sealed = EmptyMap /\ ncommits = 0
    /\ rbranches = EmptyMap /\ rcommits = {} /\ rentries = {}
    /\ ppc = EmptyMap /\ expected = EmptyMap /\ pidx = EmptyMap
    /\ synced = {} /\ shallow = FALSE /\ fetching = NoFetch /\ nfetches = 0
    /\ calc = NoCalc /\ co = NoCheckout /\ mig = NoMigration
    /\ \E read_only \in BOOLEAN :
          ndb = [NoNodeDB EXCEPT !.lookup_exists = TRUE, !.data_exists = TRUE,
                                 !.lookup = IF read_only THEN <<0>> ELSE <<>>,
                                 !.w.state = "open", !.read_only = read_only]

NextCalls ==
    \/ \E size \in Sizes : CallWriteSize(size)
    \/ \E hash \in NodeHashes, item \in Items : CallWriteOne(hash, item)
    \/ CallClose

SpecCalls == InitCalls /\ [][NextCalls]_vars

\* ------------------------------------- buckets: commit and migration
\* hashes of the child whose bucket is computed
ChildHashes == {1, 3, 7}

RECURSIVE Pow2Floor(_, _)
\* the greatest power of two that is at most k, starting from p
Pow2Floor(k, p) == IF 2 * p > k THEN p ELSE Pow2Floor(k, 2 * p)

\* (x / 10000 as f32).ceil() for the f32 value x: the exact quotient rounds
\* down to the integer below when it is within half a spacing of it
F32QuotientCeil(x) ==
    LET k == (x + VNodeSize - 1) \div VNodeSize
    IN  IF k >= 2 /\ x - (k - 1) * VNodeSize <= (Pow2Floor(k - 1, 1) * VNodeSize) \div F32Exact
        THEN k - 1
        ELSE k

\* migrate_dir: (total_children as f32 / vnode_size as f32).ceil() as u128
migrate_num_vnodes(total_children) == F32QuotientCeil(ToF32(total_children))

\* split_into_vnodes: the vnode vector of the directory and the bucket of the child
SplitChild ==
    /\ scenario = "rebucket" /\ ~calc.commit.done
    /\ LET num_vnodes == NumVNodes(calc.children)
       IN  calc' = [calc EXCEPT !.commit = [done |-> TRUE, num_vnodes |-> num_vnodes,
                                            bucket |-> calc.child_hash % num_vnodes]]
    /\ UNCHANGED <<scenario, localVars, commitVars, remoteVars, pushVars, fetchVars, ndb, co, mig>>

\* migrate_dir: the buckets of the directory and the bucket of the child
MigrateChild ==
    /\ scenario = "rebucket" /\ ~calc.migrate.done
    /\ LET num_vnodes == migrate_num_vnodes(calc.children)
       IN  calc' = [calc EXCEPT !.migrate = [done |-> TRUE, num_vnodes |-> num_vnodes,
                                             bucket |-> calc.child_hash % num_vnodes]]
    /\ UNCHANGED <<scenario, localVars, commitVars, remoteVars, pushVars, fetchVars, ndb, co, mig>>

\* a directory of 1 or more children, one of which has the hash child_hash
InitRebucket ==
    /\ scenario = "rebucket"
    /\ version = "v0_19_0"
    /\ head = NoHead /\ branches = EmptyMap /\ staged = EmptyMap /\ nodes = EmptyMap
    /\ commits = {} /\ history = EmptyMap /\ versions = {}
    /\ pc = "idle" /\ cur = NoCommit /\ idx = 1
    /\ pre = [head |-> NoHead, branches |-> EmptyMap]
    /\ sealed = EmptyMap /\ ncommits = 0
    /\ rbranches = EmptyMap /\ rcommits = {} /\ rentries = {}
    /\ ppc = EmptyMap /\ expected = EmptyMap /\ pidx = EmptyMap
    /\ synced = {} /\ shallow = FALSE /\ fetching = NoFetch /\ nfetches = 0
    /\ \E n \in ChildCounts \ {0}, h \in ChildHashes :
          calc = [NoCalc EXCEPT !.children = n, !.child_hash = h]
    /\ ndb = NoNodeDB /\ co = NoCheckout /\ mig = NoMigration

NextRebucket == SplitChild \/ MigrateChild

SpecRebucket == InitRebucket /\ [][NextRebucket]_vars

\* --------------------------------------------- migrate_dir: vnode hashes
\* the children a legacy directory may have, by name, in path order
LegacyChildren ==
    <<[name |-> "a", hash |-> 1, kind |-> "File"],
      [name |-> "m", hash |-> 2, kind |-> "Dir"],
      [name |-> "z", hash |-> 3, kind |-> "File"]>>

\* a legacy directory as migrate_dir reads it: the children listed in its
\* vnode objects, and whether the dir_hashes db of the commit has the
\* sub-directory m, which a legacy vnode may or may not list
LegacyDirs ==
    {[dir_path |-> p, listed |-> SelectSeq(LegacyChildren, LAMBDA c : c.name \in S), has_dir |-> b] :
        p \in {Root, SubDir}, S \in SUBSET {"a", "m", "z"}, b \in BOOLEAN}

\* migrate_dir: the children of the vnode objects in the order stored, then
\* the directories of dir_hashes that are direct descendants and not seen
migrate_dir_children(legacy) ==
    LET seen_it == \E i \in 1..Len(legacy.listed) :
                       legacy.listed[i].kind = "Dir" /\ legacy.listed[i].name = "m"
    IN  legacy.listed \o
        (IF legacy.has_dir /\ ~seen_it THEN SelectSeq(LegacyChildren, LAMBDA c : c.name = "m")
         ELSE <<>>)

\* xxh3 over b"vnode", the directory path and the hashes of the bucket, in
\* the order of the bucket
bucket_hash(dir_path, bucket) == [tag |-> "vnode", dir_path |-> dir_path, hashes |-> Hashes(bucket)]

\* migrate_dir: the children grouped into buckets and the hash of each bucket
migrate_dir(legacy) ==
    LET children == migrate_dir_children(legacy)
        num_vnodes == migrate_num_vnodes(Len(children))
        buckets == [k \in 1..num_vnodes |-> Bucket(children, num_vnodes, k - 1)]
    IN  [dir_path |-> legacy.dir_path,
         buckets |-> buckets,
         bucket_hashes |-> [k \in 1..num_vnodes |-> bucket_hash(legacy.dir_path, buckets[k])]]

\* one directory of a legacy commit is migrated
MigrateDir(legacy) ==
    /\ scenario = "migrate_dir"
    /\ Len(calc.runs) < MaxRuns
    /\ calc' = [calc EXCEPT !.runs = Append(@, migrate_dir(legacy))]
    /\ UNCHANGED <<scenario, localVars, commitVars, remoteVars, pushVars, fetchVars, ndb, co, mig>>

InitMigrateDir ==
    /\ scenario = "migrate_dir"
    /\ version = "v0_10_0"
    /\ head = NoHead /\ branches = EmptyMap /\ staged = EmptyMap /\ nodes = EmptyMap
    /\ commits = {} /\ history = EmptyMap /\ versions = {}
    /\ pc = "idle" /\ cur = NoCommit /\ idx = 1
    /\ pre = [head |-> NoHead, branches |-> EmptyMap]
    /\ sealed = EmptyMap /\ ncommits = 0
    /\ rbranches = EmptyMap /\ rcommits = {} /\ rentries = {}
    /\ ppc = EmptyMap /\ expected = EmptyMap /\ pidx = EmptyMap
    /\ synced = {} /\ shallow = FALSE /\ fetching = NoFetch /\ nfetches = 0
    /\ calc = NoCalc
    /\ ndb = NoNodeDB /\ co = NoCheckout /\ mig = NoMigration

NextMigrateDir == \E legacy \in LegacyDirs : MigrateDir(legacy)

SpecMigrateDir == InitMigrateDir /\ [][NextMigrateDir]_vars

\* ------------------------------------------------ core::v0_19_0::diff
\* paths and hashes of the files of the two commits compared
DiffPaths == {"a", "b", "d/a"}
DiffHashes == {1, 2}
DiffTrees == UNION {[S -> DiffHashes] : S \in (SUBSET DiffPaths) \ {{}}}

\* what makes two FileNodeWithDir equal in a HashSet: the directory and the
\* name, or these and the hash
EqKinds == {"path", "path_hash"}
FileNodeEq(eq, x, y) == x.path = y.path /\ (eq = "path_hash" => x.hash = y.hash)

\* repositories::tree::list_files_and_dirs: the files of a tree
list_files(tree) == {[path |-> p, hash |-> tree[p]] : p \in DOMAIN tree}

\* a collect_added_entries that takes a HEAD entry as added when no BASE
\* entry has its hash
collect_added_entries_by_hash(eq, base_entries, head_entries) ==
    {[path |-> h.path, status |-> "Added"] :
        h \in {x \in head_entries : ~\E y \in base_entries : x.hash = y.hash}}

\* collect_added_entries: head_entries.difference(base_entries)
collect_added_entries(eq, base_entries, head_entries) ==
    {[path |-> h.path, status |-> "Added"] :
        h \in {x \in head_entries : ~\E y \in base_entries : FileNodeEq(eq, x, y)}}

\* collect_removed_entries: the BASE entries that HEAD does not contain
collect_removed_entries(eq, base_entries, head_entries) ==
    {[path |-> b.path, status |-> "Removed"] :
        b \in {x \in base_entries : ~\E y \in head_entries : FileNodeEq(eq, y, x)}}

\* collect_modified_entries: the HEAD entries that base_entries.get finds
\* with a different hash, under the path of the BASE entry
collect_modified_entries(eq, base_entries, head_entries) ==
    {[path |-> b.path, status |-> "Modified"] :
        b \in {x \in base_entries :
                  \E y \in head_entries : FileNodeEq(eq, y, x) /\ y.hash # x.hash}}

\* list_diff_entries on the root directory: the three collections combined
diff_entries(eq, base_tree, head_tree) ==
    collect_added_entries(eq, list_files(base_tree), list_files(head_tree))
        \cup collect_removed_entries(eq, list_files(base_tree), list_files(head_tree))
        \cup collect_modified_entries(eq, list_files(base_tree), list_files(head_tree))

\* the diff from base to head (swap = FALSE) or from head to base
Diff(swap) ==
    /\ scenario = "diff"
    /\ swap \notin calc.diff.done
    /\ calc' = [calc EXCEPT
                  !.diff.done = @ \cup {swap},
                  !.diff.ab = IF swap THEN @
                              ELSE diff_entries(calc.diff.eq, calc.diff.base, calc.diff.head),
                  !.diff.ba = IF swap
                              THEN diff_entries(calc.diff.eq, calc.diff.head, calc.diff.base)
                              ELSE @]
    /\ UNCHANGED <<scenario, localVars, commitVars, remoteVars, pushVars, fetchVars, ndb, co, mig>>

InitDiff ==
    /\ scenario = "diff"
    /\ version = "v0_19_0"
    /\ head = NoHead /\ branches = EmptyMap /\ staged = EmptyMap /\ nodes = EmptyMap
    /\ commits = {} /\ history = EmptyMap /\ versions = {}
    /\ pc = "idle" /\ cur = NoCommit /\ idx = 1
    /\ pre = [head |-> NoHead, branches |-> EmptyMap]
    /\ sealed = EmptyMap /\ ncommits = 0
    /\ rbranches = EmptyMap /\ rcommits = {} /\ rentries = {}
    /\ ppc = EmptyMap /\ expected = EmptyMap /\ pidx = EmptyMap
    /\ synced = {} /\ shallow = FALSE /\ fetching = NoFetch /\ nfetches = 0
    /\ \E a \in DiffTrees, b \in DiffTrees, eq \in EqKinds :
          calc = [NoCalc EXCEPT !.diff = [NoDiff EXCEPT !.base = a, !.head = b, !.eq = eq]]
    /\ ndb = NoNodeDB /\ co = NoCheckout /\ mig = NoMigration

NextDiff == \E swap \in BOOLEAN : Diff(swap)

SpecDiff == InitDiff /\ [][NextDiff]_vars

\* ------------------------------------------------------------- claims
\* the steps of a commit that come before its branch ref is advanced
StepsBeforeRefs == {"parents", "write", "l_object", "l_new", "l_open", "l_entries"}

\* C1: when a step of the commit pipeline that comes before the branch ref is
\* advanced fails, HEAD and every branch ref are what they were when the
\* commit began
C1_FailedCommitKeepsRefs ==
    (scenario = "commit" /\ pc = "err" /\ cur.failed_at \in StepsBeforeRefs) => Refs = pre

\* every node db (v0.10.0: every entry of the commit's db) of the commit in
\* flight is written
NodeDBsWritten ==
    IF version = "v0_19_0"
    THEN idx > Len(cur.plan)
    ELSE /\ cur.id \in DOMAIN history
         /\ \A i \in 1..Len(cur.entries) : cur.entries[i].path \in history[cur.id]

C4_ClosedNodeDBKeepsRecords ==
    \A h \in DOMAIN sealed : h \in DOMAIN nodes /\ nodes[h].children = sealed[h]

\* C5: during a push the remote branch is set to a commit only after the
\* entries of that commit have arrived
C5_RemoteBranchAfterEntries ==
    [][scenario = "push" =>
         \A b \in DOMAIN rbranches' :
            (b \notin DOMAIN rbranches \/ rbranches'[b] # rbranches[b])
               => rbranches'[b] \in rentries']_vars

\* the remote head a pusher expects when it sends its next commit
ExpectedHead(p) == IF pidx[p] = 1 THEN expected[p] ELSE ChainCommit(p, pidx[p] - 1)

\* C6: the remote sets the branch by compare-and-swap: the commit of a pusher
\* replaces the head only when the head is the one that pusher expects
C6_SetBranchIsCompareAndSwap ==
    [][\A p \in Pushers :
          (scenario = "push" /\ ppc[p] = "post" /\ ppc'[p] = "entries"
             /\ rbranches' # rbranches)
          => rbranches[DEFAULT_BRANCH_NAME] = ExpectedHead(p)]_vars

\* the tree, the dir hashes and the blobs of remote commit id are in the
\* given local store
FetchComplete(ns, hist, vers, id) ==
    /\ id \in RemoteIds
    /\ \A i \in 1..Len(TreeHashes(RemoteIndex(id))) :
          LET h == TreeHashes(RemoteIndex(id))[i]
          IN  h \in DOMAIN ns /\ ns[h] = RemoteStore[h]
    /\ id \in DOMAIN hist
    /\ BlobsOf(RemoteIndex(id)) \subseteq vers

\* C7: a fetch writes a local branch ref only when the node dbs, the dir
\* hashes and the blobs of the commit it is set to are in the local store
C7_FetchSetsRefLast ==
    [][scenario = "fetch" =>
         \A b \in DOMAIN branches' :
            (b \notin DOMAIN branches \/ branches'[b] # branches[b])
               => FetchComplete(nodes', history', versions', branches'[b])]_vars

C7_Witness ==
    /\ scenario = "fetch" /\ pc = "ok" /\ Refs # pre
    /\ Len(cur.plan) > 0 /\ Len(cur.entries) > 0
    /\ branches[fetching.branch] = cur.id
    /\ FetchComplete(nodes, history, versions, cur.id)

C9_BranchHoldsNewCommit ==
    (scenario = "commit" /\ pc = "ok" /\ head # NoHead)
        => (head \in DOMAIN branches /\ branches[head] = cur.id)

\* C10: after a commit that succeeds the staging area is empty
C10_StagingEmptyAfterCommit ==
    (scenario = "commit" /\ pc = "ok") => staged = EmptyMap

\* a commit attempt that found nothing staged has returned: the call of
\* command::commit or commits::commit of the v0.10.0 pipeline, or the v0.19.0
\* commit over an empty staged db (the initial commit_with_no_files of init,
\* which is given an empty status on purpose, is not such an attempt)
NothingStagedDone ==
    /\ scenario = "commit" /\ pc \in {"ok", "err", "nothing"}
    /\ cur.entries = <<>>
    /\ version = "v0_10_0" => cur.id = <<>>

\* C11: a commit attempted with an empty staging area fails with an error of
\* kind Staging
C11_EmptyStagingFailsWithStaging ==
    NothingStagedDone => (pc = "err" /\ cur.error = "Staging")

\* C12: a commit attempted when nothing is staged creates no commit: when the
\* attempt returns, HEAD and every branch ref are what they were when it
\* began, the returning step leaves the stored commits and their entries as
\* they were, and no branch names the id the attempt computed
C12_NothingStagedCreatesNoCommit ==
    [][(NothingStagedDone' /\ ~NothingStagedDone) =>
          /\ Refs' = pre'
          /\ commits' = commits /\ history' = history
          /\ \A b \in DOMAIN branches' : branches'[b] # cur'.id]_vars

C12_Witness ==
    /\ NothingStagedDone /\ version = "v0_19_0" /\ pc = "err"
    /\ cur.error = "Basic"
    /\ cur.id \in DOMAIN nodes

\* the CommitNode of the v0.19.0 commit in flight is built: its id and its
\* parent_ids are known
CommitNodeBuilt ==
    /\ scenario = "commit" /\ version = "v0_19_0"
    /\ pc \in {"write", "set_head", "set_branch", "set_head_commit", "return", "ok"}

\* C13: every parent id of a commit names a commit persisted before the
\* commit itself: the parent's node db is on disk when the commit node
\* is built, and the parent is not the commit itself
C13_ParentsPersistedBefore ==
    CommitNodeBuilt =>
        \A i \in 1..Len(cur.parent_ids) :
            /\ cur.parent_ids[i] # cur.id
            /\ cur.parent_ids[i] \in DOMAIN nodes

\* C14: committing the same set of files with identical message, author,
\* email and timestamp (and parents) yields the same commit hash on every
\* run, whatever the order in which entries and directories are iterated
C14_CommitHashDeterministic ==
    \A i, j \in 1..Len(calc.runs) :
        (calc.runs[i].meta = calc.runs[j].meta /\ calc.runs[i].parent_ids = calc.runs[j].parent_ids)
            => calc.runs[i].commit_id = calc.runs[j].commit_id

\* the inputs the commit hash is to be computed from
CommitHashInputs(run) ==
    <<run.parent_ids, run.dir_hashes[Root], run.meta.message, run.meta.author,
      run.meta.email, run.meta.timestamp>>

\* C15: the commit hash is a function of the parent hashes, the root dir
\* hash, the message, the author, the email and the timestamp: two commits
\* that differ in one of these get different hashes, also when their files
\* are the same
C15_CommitHashCoversItsInputs ==
    \A i, j \in 1..Len(calc.runs) :
        CommitHashInputs(calc.runs[i]) # CommitHashInputs(calc.runs[j])
            => calc.runs[i].commit_id # calc.runs[j].commit_id

\* C16: for any directory, staging the same set of children in a different
\* order yields the same Dir hash
C16_DirHashIgnoresStagingOrder ==
    \A i, j \in 1..Len(calc.runs) :
        calc.runs[i].puts # calc.runs[j].puts
            => calc.runs[i].dir_hashes = calc.runs[j].dir_hashes

RECURSIVE IsPow2(_)
IsPow2(n) == n = 1 \/ (n > 1 /\ n % 2 = 0 /\ IsPow2(n \div 2))

\* N = max(1, 2^ceil(log2(children / 10000))): the least power of two N with
\* N * 10000 >= children
IsVNodeCount(N, children) ==
    /\ IsPow2(N)
    /\ N * VNodeSize >= children
    /\ N = 1 \/ (N \div 2) * VNodeSize < children

\* C17: the number of vnodes of a directory is max(1, 2^ceil(log2(children /
\* 10000))): at most 10,000 children give 1 vnode, 10,001 children give 2
C17_VNodeCountFormula ==
    (scenario = "vnodes" /\ calc.num_vnodes # 0) =>
        /\ IsVNodeCount(calc.num_vnodes, calc.children)
        /\ calc.children <= VNodeSize => calc.num_vnodes = 1
        /\ calc.children = VNodeSize + 1 => calc.num_vnodes = 2

\* the hashes the writer was given, and whether they are distinct
PlanHashes == {ndb.plan[i].hash : i \in 1..Len(ndb.plan)}
PlanDistinct ==
    \A i, j \in 1..Len(ndb.plan) : i # j => ndb.plan[i].hash # ndb.plan[j].hash
\* the item the writer was given for hash h
PlanItem(h) == ndb.plan[CHOOSE i \in 1..Len(ndb.plan) : ndb.plan[i].hash = h].item

\* C18: after open_read_write, write_size(n), n calls of write_one with
\* distinct hashes and close, a reader that then opens the directory
\* read-only opens it and gets, for every hash written, the item written with it
C18_WriteReadRoundTrip ==
    (scenario = "nodedb" /\ PlanDistinct /\ ndb.r.writer = "closed") =>
        /\ ndb.r.state = "ok"
        /\ ndb.r.size = Len(ndb.plan)
        /\ \A h \in DOMAIN ndb.r.got \cap PlanHashes :
               ndb.r.got[h] = [ok |-> TRUE, item |-> PlanItem(h)]

C18_Witness ==
    /\ scenario = "nodedb" /\ PlanDistinct /\ ndb.r.writer = "closed"
    /\ Len(ndb.plan) >= 2
    /\ ndb.plan[1].item # ndb.plan[2].item
    /\ DOMAIN ndb.r.got = PlanHashes
    /\ \A h \in PlanHashes : ndb.r.got[h].ok

\* the children of the plan that are wholly on disk: the lookup record and
\* the serialized item
CompleteRecords ==
    Cardinality({i \in 1..Len(ndb.plan) :
                    /\ Len(ndb.lookup) >= 1 + 3 * i
                    /\ Len(ndb.data) >= ndb.lookup[3 * i] + ndb.lookup[3 * i + 1]})

\* the children of the writer that the reader asked for and got
Served == {h \in DOMAIN ndb.r.got \cap PlanHashes : ndb.r.got[h].ok}
\* the children of the writer that the reader asked for and was refused
Refused == {h \in DOMAIN ndb.r.got \cap PlanHashes : ~ndb.r.got[h].ok}

\* C19: a reader that opens the directory while the writer has not closed
\* never gets a database that exposes only some of the children: a database
\* so obtained does not serve one child of the writer and refuse another
C19_NoPartialViewBeforeClose ==
    (scenario = "nodedb" /\ PlanDistinct /\ ndb.r.state = "ok" /\ ndb.r.writer = "writing") =>
        (Served = {} \/ Refused = {})

\* the writer stopped before completing the db: the lookup file is missing,
\* or its count header is absent or larger than the number of complete records
Incomplete ==
    /\ ndb.w.state = "stopped"
    /\ \/ ~ndb.lookup_exists
       \/ Len(ndb.lookup) < 1
       \/ ndb.lookup[1] > CompleteRecords

\* C20: a node db whose writer stopped before completing it is absent for
\* readers: opening it read-only never yields a database that serves some of
\* its children
C20_IncompleteDBIsAbsent ==
    (scenario = "nodedb" /\ PlanDistinct /\ Incomplete /\ ndb.r.writer = "stopped") =>
        ~(ndb.r.state = "ok" /\ Served # {})

\* C21: for a node db opened for reading after its writer closed, size() is
\* the number of children stored in it: the number of distinct hashes for
\* which get succeeds
C21_SizeIsChildCount ==
    (scenario = "nodedb" /\ ndb.r.state = "ok" /\ ndb.r.writer = "closed") =>
        ndb.r.size = Cardinality({h \in NodeHashes : get(ndb.r.offsets, ndb.data, h).ok})

\* the items of the plan, in the order in which the writer inserted them
PlanItems == [i \in 1..Len(ndb.plan) |-> ndb.plan[i].item]

\* C22: list() on a node db opened for reading after its writer closed
\* returns all children in the order in which the writer inserted them
C22_ListInInsertionOrder ==
    (scenario = "nodedb" /\ PlanDistinct /\ ndb.r.writer = "closed" /\ ndb.r.listed.done) =>
        (ndb.r.listed.ok /\ ndb.r.listed.items = PlanItems)

\* C23: after a commit completes, the DirHashes index of the commit exists
\* and has an entry for the path of the root Dir (whose value is to be the
\* hash of that Dir)
C23_DirHashesAfterCommit ==
    (scenario = "commit" /\ version = "v0_19_0" /\ pc = "ok") =>
        (cur.id \in DOMAIN history /\ Root \in history[cur.id])

\* the commits of pusher p and the history of the remote branch
LocalHistory(p) == {ChainCommit(p, k) : k \in 0..MaxPush}
RemoteHistory == {c \in rcommits : IsAncestor(c, rbranches[DEFAULT_BRANCH_NAME])}

\* C24: when a push returns successfully the history of the remote branch
\* holds every commit of the local history and each of them has its entries
\* (no commit is unsynced)
C24_PushedHistoryOnRemote ==
    [][\A p \in Pushers :
          (ppc[p] # "done" /\ ppc'[p] = "done") =>
              (LocalHistory(p) \subseteq RemoteHistory /\ LocalHistory(p) \subseteq rentries)']_vars

\* C25: a push whose history has a commit without parents that is not the
\* root commit of the remote never succeeds, and the remote branch never
\* names one of its commits
C25_UnrelatedHistoryRefused ==
    scenario = "push" =>
        \A p \in Pushers :
            (root_commit # {} /\ LocalRoot(p) # RootCommit) =>
                (ppc[p] \notin {"entries", "done"}
                 /\ rbranches[DEFAULT_BRANCH_NAME] \notin LocalHistory(p))
C25_Witness ==
    \E p \in Pushers :
        /\ LocalRoot(p) # RootCommit /\ root_commit = {RootCommit}
        /\ ppc[p] = "err" /\ pidx[p] = 0

\* the commits in the history of the remote default branch
OriginHistory ==
    {RemoteCommitId(k) : k \in 1..RemoteIndex(rbranches[DEFAULT_BRANCH_NAME])}

PullingAgain ==
    /\ scenario = "fetch" /\ pc # "idle"
    /\ fetching.branch \in DOMAIN pre.branches
    /\ fetching.branch \in DOMAIN rbranches
    /\ pre.branches[fetching.branch] = rbranches[fetching.branch]

Migratable == {i \in 1..Len(mig.commits) : mig.commits[i].downloaded /\ mig.commits[i].has_root}
AllCommits == 1..Len(mig.commits)

C30_RerunMigratesTheRest ==
    (scenario = "migrate" /\ mig.runs > 0 /\ mig.mpc \in {"done", "skipped"}) =>
        Migratable \subseteq mig.dir_dbs

\* the commit a checked out value names
CheckedOut(k) ==
    IF co.log[k] \in DOMAIN co.branches THEN co.branches[co.log[k]] ELSE co.log[k]

ChildKind(dtype) == IF dtype = "Dir" THEN "VNode" ELSE "File"
\* the writes of the commit in flight that put a child of kind kind in db h
ChildWrites(h, kind) ==
    {k \in 1..Len(cur.plan) :
        cur.plan[k].op = "add" /\ cur.plan[k].db = h /\ cur.plan[k].child.dtype = kind}

Children(h) == IF h \in DOMAIN nodes THEN nodes[h].children ELSE <<>>

\* C35: in the tree written by a completed commit the Commit node has exactly
\* one child, the root Dir, and every child of that Dir is a VNode
C35_TreeShape ==
    (scenario = "commit" /\ version = "v0_19_0" /\ pc = "ok") =>
        /\ Len(Children(cur.id)) = 1
        /\ Children(cur.id)[1].dtype = "Dir"
        /\ \A i \in 1..Len(Children(Children(cur.id)[1].hash)) :
              Children(Children(cur.id)[1].hash)[i].dtype = "VNode"

\* the records the commit in flight adds to the node db of hash h, in order
Added(h) ==
    SelectSeq([k \in 1..Len(cur.plan) |-> cur.plan[k]],
              LAMBDA o : o.op = "add" /\ o.db = h /\ o.child.dtype = "File")

\* C37: within one VNode written by a commit no two children have the same
\* hash
C37_UniqueChildrenInVNode ==
    (scenario = "commit" /\ version = "v0_19_0" /\ pc = "write") =>
        \A j \in 1..Len(cur.plan) :
            (cur.plan[j].op = "add" /\ cur.plan[j].child.dtype = "VNode") =>
                LET fs == Added(cur.plan[j].child.hash)
                IN  \A a, b \in 1..Len(fs) : fs[a].child.hash = fs[b].child.hash => a = b

\* the blobs commit c requires: the hashes of the files of its local tree
RequiredBlobs(c) ==
    LET fs == list_all_files(nodes, c, TreeDepth)
    IN  {fs[i].hash : i \in 1..Len(fs)}

\* C39: a commit is marked as synced only when every file blob it requires
\* is in the local versions store; a fetch whose blob download failed marks
\* no commit
C39_SyncedOnlyAfterBlobs ==
    /\ [](\A c \in synced : c \in DOMAIN nodes /\ RequiredBlobs(c) \subseteq versions)
    /\ [][(scenario = "fetch" /\ pc = "f_entries" /\ pc' = "err") => synced' = synced]_vars

C39_Witness ==
    /\ scenario = "fetch" /\ pc = "f_ref"
    /\ cur.id \in synced /\ RequiredBlobs(cur.id) # {}
    /\ RequiredBlobs(cur.id) \subseteq versions

\* the calls of kind call that returned Ok, by position
OkCalls(call) == {i \in 1..Len(ndb.calls) : ndb.calls[i].call = call /\ ndb.calls[i].ok}

\* C40: on one handle write_size succeeds at most once and only before any
\* write_one, write_one succeeds only after a write_size, and a call that
\* returns an error leaves the lookup and the data file unchanged
C40_WriterCallOrder ==
    scenario = "calls" =>
        /\ Cardinality(OkCalls("write_size")) <= 1
        /\ \A i \in OkCalls("write_size"), j \in OkCalls("write_one") : i < j
        /\ \A j \in OkCalls("write_one") : \E i \in OkCalls("write_size") : i < j
        /\ \A i \in 1..Len(ndb.calls) : ~ndb.calls[i].ok => ~ndb.calls[i].changed
        /\ ndb.read_only => \A i \in 1..Len(ndb.calls) : ~ndb.calls[i].ok \/ ndb.calls[i].call = "close"

\* C38: for a directory with the same children the migration makes as many
\* vnodes as the commit and puts the child in the same bucket
C38_MigrationBucketsAsCommit ==
    (scenario = "rebucket" /\ calc.commit.done /\ calc.migrate.done) =>
        /\ calc.migrate.num_vnodes = calc.commit.num_vnodes
        /\ calc.migrate.bucket = calc.commit.bucket

\* the children of bucket k of run r, as a set
BucketSet(r, k) == {r.buckets[k][i] : i \in 1..Len(r.buckets[k])}

\* C36: the hash of a VNode depends only on the path of its directory and on
\* the set of children of its bucket: two buckets of the same directory path
\* with the same children, inserted in whatever order, have the same hash
C36_VNodeHashIgnoresInsertionOrder ==
    scenario = "migrate_dir" =>
        \A i, j \in 1..Len(calc.runs) :
            LET r == calc.runs[i]
                q == calc.runs[j]
            IN  (r.dir_path = q.dir_path /\ Len(r.buckets) = Len(q.buckets)) =>
                    \A k \in 1..Len(r.buckets) :
                        BucketSet(r, k) = BucketSet(q, k) =>
                            r.bucket_hashes[k] = q.bucket_hashes[k]

\* the paths that have status st in the diff d
WithStatus(d, st) == {e.path : e \in {x \in d : x.status = st}}

\* C31: the diff from a to b is the diff from b to a with added and removed
\* swapped: a path is added in one exactly when it is removed in the other,
\* and modified in one exactly when it is modified in the other
C31_DiffSymmetry ==
    (scenario = "diff" /\ calc.diff.done = BOOLEAN) =>
        /\ WithStatus(calc.diff.ab, "Added") = WithStatus(calc.diff.ba, "Removed")
        /\ WithStatus(calc.diff.ab, "Removed") = WithStatus(calc.diff.ba, "Added")
        /\ WithStatus(calc.diff.ab, "Modified") = WithStatus(calc.diff.ba, "Modified")

C31_Witness ==
    /\ scenario = "diff" /\ calc.diff.done = BOOLEAN
    /\ WithStatus(calc.diff.ab, "Added") # {}
    /\ WithStatus(calc.diff.ab, "Removed") # {}
    /\ WithStatus(calc.diff.ab, "Modified") # {}

====
